---- MODULE Spec2Model ----
(***************************************************************************)
(* Model of the lunch-announcement pipeline of lunch_analyzer.py:          *)
(* is_lunch_message (classifier), get_message_priority_score, the per-date *)
(* deduplication loop of analyze_lunches, calculate_sentiment_rating with  *)
(* analyze_sentiment, extract_vendor_name, extract_menu_items, and the     *)
(* final sort and ranking.                                                 *)
(*                                                                         *)
(* Texts are TLA+ strings; Len, SubSeq and \o work on them character by    *)
(* character, so substring tests and the regular expressions of the source *)
(* are evaluated on the actual characters.  Timestamps are Unix seconds.   *)
(* A calendar date is the number of days since 1970-01-01 (the value that  *)
(* strftime('%Y-%m-%d') prints, one string per day number).                *)
(***************************************************************************)
EXTENDS Integers, Sequences, FiniteSets, TLC

VARIABLES
    localtz,        \* time zone of the machine running the pipeline
    messages,       \* analyze_lunches: the list returned by fetch_messages
    pc,             \* position in analyze_lunches / in the unit harness
    idx,            \* 1-based position of the running for-loop
    lunch_by_date,  \* analyze_lunches: dict date -> entry, in insertion order
    lunch_data,     \* analyze_lunches: list of output records
    result,         \* value returned by analyze_lunches
    reply_fetches,  \* thread_ts of every conversations.replies request made
    history,        \* the channel's messages as Slack holds them, newest first
    oldest_timestamp, \* fetch_messages: start of the period asked for
    cursor,         \* fetch_messages: cursor of the next page, 0 for None
    all_messages,   \* fetch_messages: the messages received so far
    fetch_log,      \* every history and replies request made, with its answer
    dashboard,      \* app.py: the slider and the filtered table shown
    probe,          \* unit harness: the message handed to the pure functions
    probe_wall,     \* unit harness: the Eastern wall clock probe.ts encodes
    probe_ins,      \* unit harness: phrase appended to build the variant text
    probe_replies,  \* unit harness: thread replies handed along with probe
    ret             \* unit harness: values returned by the pure functions

vars == <<localtz, messages, pc, idx, lunch_by_date, lunch_data, result,
          reply_fetches, history, oldest_timestamp, cursor, all_messages,
          fetch_log, dashboard, probe, probe_wall, probe_ins, probe_replies,
          ret>>

fetch_vars == <<history, oldest_timestamp, cursor, all_messages>>

pipeline_vars ==
    <<messages, idx, lunch_by_date, lunch_data, result, reply_fetches,
      fetch_vars, fetch_log, dashboard>>
unit_vars == <<probe, probe_wall, probe_ins, probe_replies, ret>>

None == "None"

\* the value analyze_lunches returns: None, or the sorted list
NotReturned == [kind |-> "pending", rows |-> <<>>]
\* an exception leaves analyze_lunches
Raised == [kind |-> "raised", rows |-> <<>>]
\* the dashboard has not rendered
NoDashboard == [shown |-> FALSE]
ReturnNone == [kind |-> "None", rows |-> <<>>]
ReturnList(rows) == [kind |-> "list", rows |-> rows]

(***************************************************************************)
(* Characters and strings                                                  *)
(***************************************************************************)
UpperAlpha == "ABCDEFGHIJKLMNOPQRSTUVWXYZ"
LowerAlpha == "abcdefghijklmnopqrstuvwxyz"

CharAt(s, i) == SubSeq(s, i, i)

UpperSet == {CharAt(UpperAlpha, k) : k \in 1..26}
LowerSet == {CharAt(LowerAlpha, k) : k \in 1..26}

\* regex class \s for the characters that occur in message texts
WhitespaceSet == {" ", "\n", "\t"}

\* str.lower() on one character (ASCII letters)
LowerChar(c) ==
    IF c \in UpperSet
    THEN CharAt(LowerAlpha, CHOOSE k \in 1..26 : CharAt(UpperAlpha, k) = c)
    ELSE c

\* str.lower(), character by character (the string is halved at each step
\* to keep the evaluation shallow)
RECURSIVE lower(_)
lower(s) ==
    IF Len(s) = 0 THEN ""
    ELSE IF Len(s) = 1 THEN LowerChar(s)
    ELSE lower(SubSeq(s, 1, Len(s) \div 2))
             \o lower(SubSeq(s, Len(s) \div 2 + 1, Len(s)))

\* s[i-1:].startswith(p), i 1-based
StartsWithAt(s, i, p) ==
    /\ i >= 1
    /\ i + Len(p) - 1 <= Len(s)
    /\ SubSeq(s, i, i + Len(p) - 1) = p

\* Python `p in s`
Contains(s, p) == \E i \in 1..(Len(s) - Len(p) + 1) : StartsWithAt(s, i, p)

\* any(phrase in s for phrase in phrases)
ContainsAny(s, phrases) == \E p \in phrases : Contains(s, p)

\* every character of s[i..j] lies in the class cls
AllIn(s, i, j, cls) == \A k \in i..j : CharAt(s, k) \in cls

(***************************************************************************)
(* Time: datetime.utcfromtimestamp / astimezone / datetime.fromtimestamp   *)
(***************************************************************************)
\* pytz US/Eastern for the year of the modelled messages (2024): EDT between
\* 2024-03-10 07:00 UTC and 2024-11-03 06:00 UTC, EST otherwise
EasternUtcOffset(ts) ==
    IF 1710054000 <= ts /\ ts < 1730613600 THEN -14400 ELSE -18000

\* offset of the machine's local zone, as datetime.fromtimestamp applies it
LocalUtcOffset(zone, ts) ==
    CASE zone = "US/Eastern" -> EasternUtcOffset(ts)
      [] zone = "UTC" -> 0
      [] zone = "Asia/Tokyo" -> 32400

\* a naive datetime: the fields of the wall clock at UTC offset `off`
DateTimeAt(ts, off) ==
    LET t == ts + off
    IN  [date |-> t \div 86400,
         hour |-> (t % 86400) \div 3600,
         minute |-> (t % 3600) \div 60,
         second |-> t % 60]

\* datetime.weekday(): Monday = 0 ... Sunday = 6 (1970-01-01 was a Thursday)
weekday(date_obj) == (date_obj.date + 3) % 7

NoTs == -1

\* the (None, None) that parse_date_from_message returns without a 'ts'
NoDate == -1
NoDateObj == [date |-> NoDate, hour |-> 0, minute |-> 0, second |-> 0]

\* the message's 'ts' key is present
HasTs(message) == message.ts # NoTs

parse_date_from_message(zone, message) ==
    IF HasTs(message)
    THEN LET date_obj == DateTimeAt(message.ts, LocalUtcOffset(zone, message.ts))
         IN  <<date_obj.date, date_obj>>
    ELSE <<NoDate, NoDateObj>>

(***************************************************************************)
(* is_lunch_message                                                        *)
(***************************************************************************)
PreviewPhrases ==
    {"next week", "next week -", "here's what to expect", "anchor day lunch menu"}

WeekdayNames ==
    {"monday", "tuesday", "wednesday", "thursday", "friday", "saturday", "sunday"}

PreviewVendors == {"makers", "o&b", "calii", "pizza", "pizzaiolo"}

\* re.search(r'(monday|...|sunday):\s*(makers|o&b|calii|pizza|pizzaiolo)', s)
weekday_preview_search(s) ==
    \E i \in 1..Len(s), d \in WeekdayNames :
        /\ StartsWithAt(s, i, d \o ":")
        /\ \E k \in 0..Len(s), v \in PreviewVendors :
              LET j == i + Len(d) + 1
              IN  /\ j + k - 1 <= Len(s)
                  /\ AllIn(s, j, j + k - 1, WhitespaceSet)
                  /\ StartsWithAt(s, j + k, v)

SecondaryWords == {"leftover", "missed out", "reminder", "mixer"}

is_secondary_without_mixer(text_lower) ==
    ContainsAny(text_lower, SecondaryWords \ {"mixer"})

is_secondary(text_lower) == ContainsAny(text_lower, SecondaryWords)

has_target_tag_always(text_lower) == TRUE

has_target_tag(text_lower) ==
    Contains(text_lower, "@toronto") \/ Contains(text_lower, "<!subteam")

is_lunch_time_exclusive(message) ==
    /\ HasTs(message)
    /\ LET et_dt == DateTimeAt(message.ts, EasternUtcOffset(message.ts))
       IN  et_dt.hour = 11 \/ (et_dt.hour = 12 /\ et_dt.minute < 15)

\* UTC timestamp converted to US/Eastern; hour == 11 or (hour == 12 and minute <= 15)
is_lunch_time(message) ==
    /\ HasTs(message)
    /\ LET et_dt == DateTimeAt(message.ts, EasternUtcOffset(message.ts))
       IN  et_dt.hour = 11 \/ (et_dt.hour = 12 /\ et_dt.minute <= 15)

ArrivalPhrases ==
    {"lunch has arrived", "lunch is ready", "lunch is here", "lunch is very",
     "lunch is", "lunch today"}

has_arrival_phrase(text_lower) == ContainsAny(text_lower, ArrivalPhrases)

MenuTriggers ==
    {"menu:", "options:", "on the menu", "what's on the menu",
     "what's in the menu", "here's what"}

has_menu_trigger(text_lower) == ContainsAny(text_lower, MenuTriggers)

DietaryTags == {"GF", "DF", "VG", "V", "HALAL", "NF"}

\* re.search(r'\([^)]*?(?:GF|DF|VG|V|HALAL|NF)[^)]*?\)', s), case-sensitive:
\* the source passes no re.IGNORECASE flag to this search
dietary_search(s) ==
    \E i \in 1..Len(s), j \in 1..Len(s) :
        /\ i < j
        /\ CharAt(s, i) = "("
        /\ CharAt(s, j) = ")"
        /\ \A k \in (i + 1)..(j - 1) : CharAt(s, k) # ")"
        /\ ContainsAny(SubSeq(s, i + 1, j - 1), DietaryTags)

\* has_menu_items: the search runs on text_lower
has_menu_items(text_lower) == dietary_search(text_lower)

\* re.search(r'(?:today\s+)?we have', text_lower, re.IGNORECASE): the optional
\* prefix does not change whether a match exists, and text_lower is lowercase
has_we_have_pattern(text_lower) == Contains(text_lower, "we have")

\* keyword, \s+, one letter, then one or more characters of `tail`
\* (the shape of r'kw\s+[A-Z][...]+' under re.IGNORECASE)
keyword_name_search(s, keywords, tail) ==
    \E i \in 1..Len(s), kw \in keywords :
        /\ StartsWithAt(s, i, kw)
        /\ \E k \in 1..Len(s) :
              LET j == i + Len(kw)
              IN  /\ j + k + 1 <= Len(s)
                  /\ AllIn(s, j, j + k - 1, WhitespaceSet)
                  /\ CharAt(s, j + k) \in (UpperSet \cup LowerSet)
                  /\ CharAt(s, j + k + 1) \in tail

\* re.search(r'from\s+[A-Z][a-zA-Z\s&]+', text, re.IGNORECASE)
has_from_vendor_pattern(text) ==
    keyword_name_search(lower(text), {"from"},
                        UpperSet \cup LowerSet \cup WhitespaceSet \cup {"&"})

FoodWords ==
    {"pizza", "bowl", "salad", "chicken", "salmon", "beef", "pork",
     "sandwich", "wrap", "taco", "burrito", "soup", "rice", "noodles",
     "pasta", "catering", "vendor", "maker", "calii", "african", "thai",
     "mexican", "japanese", "chinese", "indian", "italian", "toben", "choose"}

has_food_context(text_lower) == ContainsAny(text_lower, FoodWords)

is_lunch_message(message) ==
    LET text == message.text
        text_lower == lower(text)
    IN  IF ContainsAny(text_lower, PreviewPhrases) THEN FALSE
        ELSE IF weekday_preview_search(text_lower) THEN FALSE
        ELSE IF is_secondary(text_lower) THEN FALSE
        ELSE IF ~has_target_tag(text_lower) THEN FALSE
        ELSE /\ \/ is_lunch_time(message)
                \/ has_arrival_phrase(text_lower)
                \/ has_menu_trigger(text_lower)
                \/ (has_we_have_pattern(text_lower) /\ has_food_context(text_lower))
                \/ has_from_vendor_pattern(text)
                \/ has_menu_items(text_lower)
             /\ ~is_secondary(text_lower)

(***************************************************************************)
(* get_message_priority_score                                              *)
(***************************************************************************)
Abs(n) == IF n < 0 THEN -n ELSE n

time_score_open_window(date_obj) ==
    LET time_minutes == date_obj.hour * 60 + date_obj.minute
        target_minutes == 12 * 60
        distance_from_noon == Abs(time_minutes - target_minutes)
    IN  IF 660 <= time_minutes /\ time_minutes < 780
        THEN 1000 - distance_from_noon
        ELSE 500 - distance_from_noon

time_score(date_obj) ==
    LET time_minutes == date_obj.hour * 60 + date_obj.minute
        target_minutes == 12 * 60
        distance_from_noon == Abs(time_minutes - target_minutes)
    IN  IF 660 <= time_minutes /\ time_minutes <= 780
        THEN 1000 - distance_from_noon
        ELSE 500 - distance_from_noon

ScoreMenuPhrases == {"here's what", "what's on the menu", "what's in the menu"}

has_score_menu_phrase_classifier_set(text) == ContainsAny(text, MenuTriggers)

\* any(phrase in text for phrase in ["here's what", "what's on the menu", ...])
has_score_menu_phrase(text) == ContainsAny(text, ScoreMenuPhrases)

\* the same search without re.IGNORECASE: [A-Z] needs a capital letter
has_vendor_pattern_case_sensitive(text) ==
    \E i \in 1..Len(text), kw \in {"we have", "today we have", "from"} :
        /\ StartsWithAt(text, i, kw)
        /\ \E k \in 1..Len(text) :
              LET j == i + Len(kw)
              IN  /\ j + k + 1 <= Len(text)
                  /\ AllIn(text, j, j + k - 1, WhitespaceSet)
                  /\ CharAt(text, j + k) \in UpperSet
                  /\ CharAt(text, j + k + 1) \in
                        (UpperSet \cup LowerSet \cup WhitespaceSet \cup {"&", "'", "-"})

\* re.search(r"(?:we have|today we have|from)\s+[A-Z][a-zA-Z\s&'-]+", text, re.IGNORECASE)
has_vendor_pattern(text) ==
    keyword_name_search(lower(text), {"we have", "today we have", "from"},
                        UpperSet \cup LowerSet \cup WhitespaceSet \cup {"&", "'", "-"})

quality_bonus(text) ==
      (IF Contains(text, "lunch has arrived") THEN 500 ELSE 0)
    + (IF dietary_search(text) THEN 300 ELSE 0)
    + (IF has_score_menu_phrase(text) THEN 200 ELSE 0)
    + (IF has_vendor_pattern(text) THEN 100 ELSE 0)

get_message_priority_score(message, date_obj) ==
    time_score(date_obj) + quality_bonus(lower(message.text))

(***************************************************************************)
(* analyze_sentiment and calculate_sentiment_rating                        *)
(***************************************************************************)
\* the list also holds the fire emoji character itself; the modelled texts
\* are ASCII, which it never matches
PositivePhrases ==
    <<"so good", "really good", "amazing", "delicious", "love", "loved",
      "excellent", "great", "fantastic", "best", "favorite", "yummy",
      "tasty", "perfect", "incredible", "wow", "fire", "this",
      "yes", "agreed", "same", "facts", "truth">>

NegativePhrases ==
    <<"bad", "terrible", "awful", "disgusting", "hate", "worst",
      "disappointed", "not good", "meh", "bland">>

PositiveEmojiPatterns ==
    {"chef", "kiss", "fire", "heart", "star", "drool", "yum", "100",
     "exploding", "party", "clap", "raised_hands", "thumbsup", "thumbs_up",
     "muscle", "ok_hand", "check", "white_check_mark", "checkmark"}

NegativeEmojiPatterns ==
    {"thumbsdown", "thumbs_down", "x", "cross", "disappointed", "sad"}

Digits == "0123456789"

\* regex class \w
WordSet == UpperSet \cup LowerSet \cup {CharAt(Digits, k) : k \in 1..10} \cup {"_"}

CountOccurrences(s, phrases) ==
    Cardinality({ki \in (1..Len(phrases)) \X (1..Len(s)) :
                    StartsWithAt(s, ki[2], phrases[ki[1]])})

\* number of list entries that occur in s (each entry counts once)
CountPresent(s, phrases) ==
    Cardinality({k \in 1..Len(phrases) : Contains(s, phrases[k])})

\* the first index >= i whose character is outside cls, Len(s) + 1 if none
RunEnd(s, i, cls) ==
    IF i > Len(s) THEN Len(s) + 1
    ELSE CHOOSE e \in i..(Len(s) + 1) :
             /\ e = Len(s) + 1 \/ CharAt(s, e) \notin cls
             /\ \A k \in i..(e - 1) : CharAt(s, k) \in cls

\* name matches \w+(?:[-_]\w+)*
IsEmojiName(name) ==
    /\ Len(name) >= 1
    /\ CharAt(name, 1) \in WordSet
    /\ CharAt(name, Len(name)) \in WordSet
    /\ ~Contains(name, "--")

\* re.findall(r':(\w+(?:[-_]\w+)*):', s) scanning from position i: matches
\* are leftmost and do not overlap (a closing colon is consumed)
RECURSIVE emoji_findall(_, _)
emoji_findall(s, i) ==
    IF i > Len(s) THEN <<>>
    ELSE IF CharAt(s, i) # ":" THEN emoji_findall(s, i + 1)
    ELSE LET e == RunEnd(s, i + 1, WordSet \cup {"-"})
             name == SubSeq(s, i + 1, e - 1)
         IN  IF e <= Len(s) /\ CharAt(s, e) = ":" /\ IsEmojiName(name)
             THEN <<name>> \o emoji_findall(s, e + 1)
             ELSE emoji_findall(s, i + 1)

emoji_name_score_independent(emoji_name) ==
    (IF ContainsAny(emoji_name, PositiveEmojiPatterns) THEN 2 ELSE 0)
    + (IF ContainsAny(emoji_name, NegativeEmojiPatterns) THEN -2 ELSE 0)

\* the if/elif of lines 631-635 for one emoji name
emoji_name_score(emoji_name) ==
    IF ContainsAny(emoji_name, PositiveEmojiPatterns) THEN 2
    ELSE IF ContainsAny(emoji_name, NegativeEmojiPatterns) THEN -2
    ELSE 0

RECURSIVE SumSeq(_)
SumSeq(q) == IF q = <<>> THEN 0 ELSE Head(q) + SumSeq(Tail(q))

analyze_sentiment(text) ==
    LET text_lower == lower(text)
        emoji_matches == emoji_findall(text_lower, 1)
    IN    2 * CountPresent(text_lower, PositivePhrases)
        - 2 * CountPresent(text_lower, NegativePhrases)
        + SumSeq([k \in 1..Len(emoji_matches) |->
                     emoji_name_score(emoji_matches[k])])

ReschedulingWords ==
    {"rescheduled", "reschedule", "cancelled", "canceled", "cancellation",
     "change in plans", "quick change", "originally planning", "postponed"}

scaled_penalty_when_rescheduling(n, is_rescheduling) ==
    IF is_rescheduling THEN n - 2 ELSE n

\* int(n * weight_multiplier): weight_multiplier is 0.5 when the root text
\* mentions rescheduling, else 1.0; int() truncates toward zero
scaled(n, is_rescheduling) ==
    IF is_rescheduling
    THEN (IF n >= 0 THEN n \div 2 ELSE -((-n) \div 2))
    ELSE n

EnthusiasticEmojis ==
    {"heart_eyes", "star_struck", "drooling", "yum", "fire", "100", "exploding_head"}

PositiveEmojis ==
    {"heart", "star", "thumbsup", "+1", "clap", "party", "raised_hands"}

root_reaction_weight_positive_first(name) ==
    IF ContainsAny(name, PositiveEmojis) THEN 2
    ELSE IF ContainsAny(name, EnthusiasticEmojis) THEN 3
    ELSE 1

\* lines 663-670: weight of a reaction on the root message
root_reaction_weight(name) ==
    IF ContainsAny(name, EnthusiasticEmojis) THEN 3
    ELSE IF ContainsAny(name, PositiveEmojis) THEN 2
    ELSE 1

AgreementEmojis == {"check", "white_check_mark", "checkmark", "thumbsup", "+1", "this"}

reply_reaction_weight_root_tiers(name, is_positive_comment) ==
    IF is_positive_comment
    THEN IF ContainsAny(name, AgreementEmojis) THEN 3
         ELSE IF ContainsAny(name, EnthusiasticEmojis) THEN 3
         ELSE IF ContainsAny(name, PositiveEmojis) THEN 2
         ELSE 1
    ELSE IF ContainsAny(name, {"heart_eyes", "star_struck", "drooling",
                               "yum", "fire"}) THEN 2
         ELSE 1

\* lines 700-717: weight of a reaction on a reply
reply_reaction_weight(name, is_positive_comment) ==
    IF is_positive_comment
    THEN IF ContainsAny(name, AgreementEmojis) THEN 3
         ELSE IF ContainsAny(name, {"heart_eyes", "star_struck", "drooling",
                                    "yum", "fire", "chef", "kiss"}) THEN 3
         ELSE IF ContainsAny(name, {"heart", "star", "clap", "party",
                                    "raised_hands"}) THEN 2
         ELSE 1
    ELSE IF ContainsAny(name, {"heart_eyes", "star_struck", "drooling",
                               "yum", "fire"}) THEN 2
         ELSE IF ContainsAny(name, {"heart", "star", "thumbsup", "+1", "check"}) THEN 1
         ELSE 1

reply_score_always_positive(reply, is_rescheduling) ==
    LET sentiment_score == analyze_sentiment(reply.text)
        reply_reactions == reply.reactions
    IN  scaled(sentiment_score, is_rescheduling)
        + SumSeq([k \in 1..Len(reply_reactions) |->
              scaled(reply_reactions[k].count
                       * reply_reaction_weight(lower(reply_reactions[k].name),
                                               TRUE),
                     is_rescheduling)])

\* lines 681-717: what one reply adds to total_score
reply_score(reply, is_rescheduling) ==
    LET sentiment_score == analyze_sentiment(reply.text)
        is_positive_comment == sentiment_score > 0
        reply_reactions == reply.reactions
    IN  scaled(sentiment_score, is_rescheduling)
        + SumSeq([k \in 1..Len(reply_reactions) |->
              scaled(reply_reactions[k].count
                       * reply_reaction_weight(lower(reply_reactions[k].name),
                                               is_positive_comment),
                     is_rescheduling)])

calculate_sentiment_rating_halved_once(message, thread_replies) ==
    LET text == lower(message.text)
        is_rescheduling == ContainsAny(text, ReschedulingWords)
        reactions == message.reactions
    IN  scaled(
          SumSeq([k \in 1..Len(reactions) |->
              reactions[k].count * root_reaction_weight(lower(reactions[k].name))])
          + (IF thread_replies # <<>>
             THEN Len(thread_replies) * 2
                  + SumSeq([k \in 1..Len(thread_replies) |->
                        reply_score(thread_replies[k], FALSE)])
             ELSE 0),
          is_rescheduling)

calculate_sentiment_rating(message, thread_replies) ==
    LET text == lower(message.text)
        is_rescheduling == ContainsAny(text, ReschedulingWords)
        reactions == message.reactions
    IN  SumSeq([k \in 1..Len(reactions) |->
              scaled(reactions[k].count
                       * root_reaction_weight(lower(reactions[k].name)),
                     is_rescheduling)])
        + (IF thread_replies # <<>>
           THEN scaled(Len(thread_replies) * 2, is_rescheduling)
                + SumSeq([k \in 1..Len(thread_replies) |->
                      reply_score(thread_replies[k], is_rescheduling)])
           ELSE 0)

(***************************************************************************)
(* extract_vendor_name.  The regular expressions are evaluated on the      *)
(* characters: a search returns the leftmost match, a lazy group the       *)
(* shortest span after which the rest of the pattern matches.  Patterns    *)
(* searched with re.IGNORECASE are located on the lowercased text and the  *)
(* group is cut from the text itself.                                      *)
(***************************************************************************)
\* smallest element of a non-empty set of integers
Min(S) == CHOOSE x \in S : \A y \in S : x <= y

\* the character at i, "" outside the string
Ch(s, i) == IF 1 <= i /\ i <= Len(s) THEN CharAt(s, i) ELSE ""

\* Python s[a-1:b]
Slice(s, a, b) == IF a > b \/ a > Len(s) \/ b < 1 THEN "" ELSE SubSeq(s, a, b)

\* the last index <= i whose character is outside cls, 0 if none
RunStart(s, i, cls) ==
    IF i < 1 THEN 0
    ELSE CHOOSE b \in 0..i :
             /\ b = 0 \/ CharAt(s, b) \notin cls
             /\ \A k \in (b + 1)..i : CharAt(s, k) \in cls

\* the first index >= i whose character is in chars, Len(s) + 1 if none
FirstOf(s, i, chars) ==
    IF i > Len(s) THEN Len(s) + 1
    ELSE CHOOSE e \in i..(Len(s) + 1) :
             /\ e = Len(s) + 1 \/ CharAt(s, e) \in chars
             /\ \A k \in i..(e - 1) : CharAt(s, k) \notin chars

\* str.strip()
strip(s) ==
    Slice(s, RunEnd(s, 1, WhitespaceSet), RunStart(s, Len(s), WhitespaceSet))

\* html.unescape of s from index i on, for the entities Slack writes (&amp;
\* &lt; &gt;); like the library, it reads the text once from left to right,
\* and it also accepts these three names without the closing semicolon
RECURSIVE html_unescape(_, _)
html_unescape(s, i) ==
    LET HtmlEntities ==
            <<<<"&amp;", "&">>, <<"&lt;", "<">>, <<"&gt;", ">">>,
              <<"&amp", "&">>, <<"&lt", "<">>, <<"&gt", ">">>>>
        a == FirstOf(s, i, {"&"})
        hits == {k \in 1..Len(HtmlEntities) :
                    StartsWithAt(s, a, HtmlEntities[k][1])}
    IN  IF a > Len(s) THEN Slice(s, i, Len(s))
        ELSE IF hits = {} THEN Slice(s, i, a) \o html_unescape(s, a + 1)
        ELSE Slice(s, i, a - 1) \o HtmlEntities[Min(hits)][2]
                 \o html_unescape(s, a + Len(HtmlEntities[Min(hits)][1]))

\* re.sub(pattern, repl, s) applied to s from index i on, for the
\* substitutions that may match anywhere in the text:
\*   "labelled_link"  re.sub(r'<https?://[^|>]+\|([^>]+)>', r'\1', s)
\*   "bare_link"      re.sub(r'<https?://[^>]+>', '', s)
\*   "open_link"      re.sub(r'<https?://[^>]+', '', s)
\*   "emoji_name"     re.sub(r':\w+(?:-\w+)*:', '', s)
\*   "angle_markup"   re.sub(r'<[^>]+>', '', s)
\*   "asterisks"      re.sub(r'\*+', '', s)
\* A match is looked for at each occurrence a of the pattern's first
\* character: m.end is the index behind the match (0 when there is none at
\* a) and m.repl what replaces it.
RECURSIVE re_sub(_, _, _)
re_sub(pattern, s, i) ==
    LET none == [end |-> 0, repl |-> ""]
        \* r'<https?://[^|>]+\|([^>]+)>' at a, the link's address starting
        \* at body and ending before bar
        labelled_link(body, bar) ==
            LET close == FirstOf(s, bar + 1, {">"})
            IN  IF /\ bar > body /\ Ch(s, bar) = "|"
                   /\ close > bar + 1 /\ close <= Len(s)
                THEN [end |-> close + 1, repl |-> Slice(s, bar + 1, close - 1)]
                ELSE none
        \* r'<https?://[^>]+>' (closed) and r'<https?://[^>]+' at a, the
        \* link's address starting at body and ending before close
        link(body, close, closed) ==
            IF close > body /\ (~closed \/ close <= Len(s))
            THEN [end |-> IF closed THEN close + 1 ELSE close, repl |-> ""]
            ELSE none
        \* r':\w+(?:-\w+)*:' at a, the run of name characters ending before e
        emoji_name(a, e) ==
            IF Ch(s, e) = ":" /\ IsEmojiName(Slice(s, a + 1, e - 1))
            THEN [end |-> e + 1, repl |-> ""]
            ELSE none
        \* r'<[^>]+>' at a, the next '>' being at close
        angle_markup(a, close) ==
            IF close > a + 1 /\ close <= Len(s)
            THEN [end |-> close + 1, repl |-> ""]
            ELSE none
        \* the match at a; body is the first index behind '<http://' or
        \* '<https://' at a, 0 when neither is there
        match(a, body) ==
            CASE pattern = "labelled_link" ->
                    IF body = 0 THEN none
                    ELSE labelled_link(body, FirstOf(s, body, {"|", ">"}))
              [] pattern = "bare_link" ->
                    IF body = 0 THEN none
                    ELSE link(body, FirstOf(s, body, {">"}), TRUE)
              [] pattern = "open_link" ->
                    IF body = 0 THEN none
                    ELSE link(body, FirstOf(s, body, {">"}), FALSE)
              [] pattern = "emoji_name" ->
                    emoji_name(a, RunEnd(s, a + 1, WordSet \cup {"-"}))
              [] pattern = "angle_markup" ->
                    angle_markup(a, FirstOf(s, a + 1, {">"}))
              [] pattern = "asterisks" ->
                    [end |-> RunEnd(s, a, {"*"}), repl |-> ""]
        \* the text from i on, m being the match at a
        substituted(a, m) ==
            IF a > Len(s) THEN Slice(s, i, Len(s))
            ELSE IF m.end = 0 THEN Slice(s, i, a) \o re_sub(pattern, s, a + 1)
            ELSE Slice(s, i, a - 1) \o m.repl \o re_sub(pattern, s, m.end)
        from(a) ==
            substituted(a, match(a, IF StartsWithAt(s, a, "<https://") THEN a + 9
                                    ELSE IF StartsWithAt(s, a, "<http://") THEN a + 8
                                    ELSE 0))
    IN  from(FirstOf(s, i, {CASE pattern = "emoji_name" -> ":"
                              [] pattern = "asterisks" -> "*"
                              [] OTHER -> "<"}))

\* regex $ without re.MULTILINE: the end, or just before a final newline
AtEnd(s, e) == e = Len(s) + 1 \/ (e = Len(s) /\ CharAt(s, e) = "\n")

\* first index behind the whitespace that starts at e
AfterWs(s, e) == RunEnd(s, e, WhitespaceSet)

\* \s+word at e, located on the lowercased text tl
WsWord(tl, e, word) == AfterWs(tl, e) > e /\ StartsWithAt(tl, AfterWs(tl, e), word)

\* the result of a search that did not match
NoMatch == [found |-> FALSE, group |-> ""]

\* \s+([A-Z][a-zA-Z\s&'-]+?)(?:\s*!|\.|$) at a, under re.IGNORECASE: the
\* group, lazily extended
name_group(s, a) ==
    LET Letters == UpperSet \cup LowerSet
        \* the class [a-zA-Z\s&'-]
        NameClass == Letters \cup WhitespaceSet \cup {"&", "'", "-"}
        \* (?:\s*!|\.|$) at e
        from_terminator(e) ==
            \/ Ch(s, AfterWs(s, e)) = "!"
            \/ Ch(s, e) = "."
            \/ AtEnd(s, e)
        g == AfterWs(s, a)
        hi == RunEnd(s, g + 1, NameClass)
        ends == {e \in (g + 2)..hi : from_terminator(e)}
    IN  IF g > a /\ Ch(s, g) \in Letters /\ ends # {}
        THEN [found |-> TRUE, group |-> Slice(s, g, Min(ends) - 1)]
        ELSE NoMatch

\* re.search(r"from\s+([A-Z][a-zA-Z\s&'-]+?)(?:\s*!|\.|$)", s, re.IGNORECASE)
search_from(s) ==
    LET tl == lower(s)
        starts == {i \in 1..Len(s) :
                      StartsWithAt(tl, i, "from") /\ name_group(s, i + 4).found}
    IN  IF starts = {} THEN NoMatch ELSE name_group(s, Min(starts) + 4)

\* \s+and\s+[A-Z] at e, under re.IGNORECASE
ws_and_capital(tl, e) ==
    LET p == AfterWs(tl, e)
        q == AfterWs(tl, p + 3)
    IN  /\ p > e
        /\ StartsWithAt(tl, p, "and")
        /\ q > p + 3
        /\ Ch(tl, q) \in LowerSet

\* \s+with\s+ at e
ws_with_ws(tl, e) ==
    WsWord(tl, e, "with") /\ Ch(tl, AfterWs(tl, e) + 4) \in WhitespaceSet

\* the ordered list `patterns`, each searched in the text s with
\* re.search(pattern, s, re.IGNORECASE)
patterns(s) ==
    LET tl == lower(s)
        \* (.*?) from g up to the first index at which Term holds; '.' does
        \* not match a newline
        lazy_group(g, Term(_)) ==
            LET hi == FirstOf(s, g, {"\n"})
                ends == {e \in g..hi : Term(e)}
            IN  IF ends = {} THEN NoMatch
                ELSE [found |-> TRUE, group |-> Slice(s, g, Min(ends) - 1)]
        \* choose\s+(?:a\s+)?[^f]*?\s+from at i: [^f] admits no 'f' or 'F', so
        \* the 'from' is at the first f behind 'choose', with whitespace on
        \* both ends of the span between them
        choose_from(i) ==
            LET a == i + 6
                f == FirstOf(tl, a, {"f"})
            IN  IF /\ StartsWithAt(tl, i, "choose")
                   /\ StartsWithAt(tl, f, "from")
                   /\ f - a >= 2
                   /\ Ch(s, a) \in WhitespaceSet
                   /\ Ch(s, f - 1) \in WhitespaceSet
                THEN name_group(s, f + 4)
                ELSE NoMatch
        \* r"choose\s+(?:a\s+)?[^f]*?\s+from\s+([A-Z][a-zA-Z\s&'-]+?)(?:\s*!|\.|$)"
        search_choose_from ==
            LET starts == {i \in 1..Len(s) : choose_from(i).found}
            IN  IF starts = {} THEN NoMatch ELSE choose_from(Min(starts))
        \* (?:\s+today|:|\s+and\s+[A-Z]|\s+with\s+|\.|$) at e
        we_have_terminator(e) ==
            \/ WsWord(tl, e, "today")
            \/ Ch(s, e) = ":"
            \/ ws_and_capital(tl, e)
            \/ ws_with_ws(tl, e)
            \/ Ch(s, e) = "."
            \/ AtEnd(s, e)
        \* prefix + r"(.*?)(?:\s+today|:|\s+and\s+[A-Z]|\s+with\s+|\.|$)" for
        \* the literal prefixes "today we have " and "we have "
        search_we_have(prefix) ==
            LET at(i) == lazy_group(i + Len(prefix), we_have_terminator)
                starts == {i \in 1..Len(s) :
                              StartsWithAt(tl, i, prefix) /\ at(i).found}
            IN  IF starts = {} THEN NoMatch ELSE at(Min(starts))
        \* r"lunch has arrived.*?we have (.*?)(?::|\.)"
        search_arrived_we_have ==
            LET Term(e) == Ch(s, e) \in {":", "."}
                at(i, j) == lazy_group(j + 8, Term)
                hits == {ij \in (1..Len(s)) \X (1..Len(s)) :
                            /\ StartsWithAt(tl, ij[1], "lunch has arrived")
                            /\ ij[2] >= ij[1] + 17
                            /\ StartsWithAt(tl, ij[2], "we have ")
                            /\ FirstOf(s, ij[1], {"\n"}) > ij[2]
                            /\ at(ij[1], ij[2]).found}
                first == CHOOSE ij \in hits :
                             \A o \in hits : \/ ij[1] < o[1]
                                             \/ (ij[1] = o[1] /\ ij[2] <= o[2])
            IN  IF hits = {} THEN NoMatch ELSE at(first[1], first[2])
        \* r"arrived - we have (.*?) today"
        search_arrived_dash ==
            LET Term(e) == StartsWithAt(tl, e, " today")
                at(i) == lazy_group(i + 18, Term)
                starts == {i \in 1..Len(s) :
                              /\ StartsWithAt(tl, i, "arrived - we have ")
                              /\ at(i).found}
            IN  IF starts = {} THEN NoMatch ELSE at(Min(starts))
    IN  <<search_from(s),
          search_choose_from,
          search_we_have("today we have "),
          search_we_have("we have "),
          search_arrived_we_have,
          search_arrived_dash>>

\* re.sub(r'\s+(kw1|kw2|...).*$', '', s, flags=re.IGNORECASE)
sub_trailing_words(s, keywords) ==
    LET tl == lower(s)
        hits == {p \in 2..Len(s) :
                    /\ CharAt(s, p - 1) \in WhitespaceSet
                    /\ \E k \in keywords :
                          /\ StartsWithAt(tl, p, k)
                          /\ FirstOf(s, p + Len(k), {"\n"}) >= Len(s)}
        start == RunStart(s, Min(hits) - 1, WhitespaceSet) + 1
    IN  IF hits = {} THEN s
        ELSE Slice(s, 1, start - 1) \o (IF Ch(s, Len(s)) = "\n" THEN "\n" ELSE "")

\* re.sub(r'\s*\([^)]*\)\s*$', '', s)
sub_trailing_parenthetical(s) ==
    LET hits == {q \in 1..Len(s) :
                    /\ CharAt(s, q) = "("
                    /\ FirstOf(s, q + 1, {")"}) <= Len(s)
                    /\ AfterWs(s, FirstOf(s, q + 1, {")"}) + 1) = Len(s) + 1}
    IN  IF hits = {} THEN s
        ELSE Slice(s, 1, RunStart(s, Min(hits) - 1, WhitespaceSet))

\* re.sub(r'[.,;:!?]+$', '', s)
sub_trailing_punctuation(s) ==
    LET last == IF Ch(s, Len(s)) = "\n" THEN Len(s) - 1 ELSE Len(s)
        keep == RunStart(s, last, {".", ",", ";", ":", "!", "?"})
    IN  Slice(s, 1, keep) \o Slice(s, last + 1, Len(s))

\* re.split(r'\s+and\s+', s, flags=re.IGNORECASE), scanning from index a
RECURSIVE split_and(_, _)
split_and(s, a) ==
    LET tl == lower(s)
        hits == {p \in (a + 1)..Len(s) :
                    /\ CharAt(s, p - 1) \in WhitespaceSet
                    /\ StartsWithAt(tl, p, "and")
                    /\ Ch(s, p + 3) \in WhitespaceSet}
        p == Min(hits)
        start == IF RunStart(s, p - 1, WhitespaceSet) + 1 > a
                 THEN RunStart(s, p - 1, WhitespaceSet) + 1 ELSE a
    IN  IF hits = {} THEN <<Slice(s, a, Len(s))>>
        ELSE <<Slice(s, a, start - 1)>> \o split_and(s, AfterWs(s, p + 3))

\* sep.join(parts)
RECURSIVE join(_, _)
join(sep, parts) ==
    IF Len(parts) = 0 THEN ""
    ELSE IF Len(parts) = 1 THEN parts[1]
    ELSE parts[1] \o sep \o join(sep, Tail(parts))

\* vendor.startswith('http') or vendor.startswith('<') or '://' in vendor
looks_like_link(vendor) ==
    \/ StartsWithAt(vendor, 1, "http")
    \/ StartsWithAt(vendor, 1, "<")
    \/ Contains(vendor, "://")

\* 'X and Y' -> 'X & Y'.  A cleaned part is kept when it has more than 2
\* characters and does not start with '<' (lines 355-356); the 'we have'
\* fallback also drops the parts that look like a link (lines 403-404)
join_vendors(vendor, in_fallback) ==
    LET parts == split_and(vendor, 1)
        clean_part(part) ==
            strip(sub_trailing_punctuation(
                strip(sub_trailing_parenthetical(
                    sub_trailing_words(part, {"today", "with"})))))
        cleaned == [k \in 1..Len(parts) |-> clean_part(parts[k])]
        KeepPart(part) ==
            /\ Len(part) > 2
            /\ IF in_fallback THEN ~looks_like_link(part)
               ELSE ~StartsWithAt(part, 1, "<")
        cleaned_parts == SelectSeq(cleaned, KeepPart)
    IN  IF cleaned_parts # <<>> THEN join(" & ", cleaned_parts) ELSE vendor

\* lines 336-368: the clean-up of a group matched by one of `patterns`
clean_pattern_vendor(group) ==
    LET v1 == strip(re_sub("emoji_name", strip(group), 1))
        v2 == re_sub("angle_markup", v1, 1)
    IN  strip(IF Contains(lower(v2), " and ")
              THEN join_vendors(v2, FALSE)
              ELSE strip(sub_trailing_punctuation(
                       sub_trailing_parenthetical(
                           sub_trailing_words(v2,
                               {"today", "and", "here", "menu", "arrived", "with"})))))

\* re.search(r'we have\s+([^:\.!?]+?)(?:\s+today|\s+and\s+[A-Z]|\s+with\s+|'
\*           r'\s*:|\.|!|\?|$)', s, re.IGNORECASE)
search_we_have_fallback(s) ==
    LET tl == lower(s)
        \* (?:\s+today|\s+and\s+[A-Z]|\s+with\s+|\s*:|\.|!|\?|$) at e
        fallback_terminator(e) ==
            \/ WsWord(tl, e, "today")
            \/ ws_and_capital(tl, e)
            \/ ws_with_ws(tl, e)
            \/ Ch(s, AfterWs(s, e)) = ":"
            \/ Ch(s, e) \in {".", "!", "?"}
            \/ AtEnd(s, e)
        \* the match at i: the whitespace behind 'we have' is matched
        \* greedily, and given back when the group would otherwise fail
        fallback_at(i) ==
            LET a == i + 7
                w == AfterWs(s, a)
                tries == {<<g, e>> \in ((a + 1)..w) \X ((a + 2)..(Len(s) + 1)) :
                             /\ e > g
                             /\ FirstOf(s, g, {":", ".", "!", "?"}) >= e
                             /\ fallback_terminator(e)}
                best == CHOOSE t \in tries :
                            \A o \in tries : \/ t[1] > o[1]
                                             \/ (t[1] = o[1] /\ t[2] <= o[2])
            IN  IF StartsWithAt(tl, i, "we have") /\ w > a /\ tries # {}
                THEN [found |-> TRUE, group |-> Slice(s, best[1], best[2] - 1)]
                ELSE NoMatch
        starts == {i \in 1..Len(s) : fallback_at(i).found}
    IN  IF starts = {} THEN NoMatch ELSE fallback_at(Min(starts))

extract_vendor_name(message) ==
    LET \* html.unescape(re.sub(r'\*+', '', vendor).strip())
        returned_vendor(vendor) ==
            html_unescape(strip(re_sub("asterisks", vendor, 1)), 1)
        \* the emoji names and the link markup taken out of a matched group
        without_markup(group) ==
            re_sub("angle_markup", strip(re_sub("emoji_name", strip(group), 1)), 1)
        \* re.sub(r'\s+with\s+.*$', '', s, flags=re.IGNORECASE)
        sub_with_clause(s) ==
            LET tl == lower(s)
                hits == {p \in 2..Len(s) :
                            /\ CharAt(s, p - 1) \in WhitespaceSet
                            /\ StartsWithAt(tl, p, "with")
                            /\ AfterWs(s, p + 4) > p + 4
                            /\ FirstOf(s, AfterWs(s, p + 4), {"\n"}) >= Len(s)}
                start == RunStart(s, Min(hits) - 1, WhitespaceSet) + 1
            IN  IF hits = {} THEN s
                ELSE Slice(s, 1, start - 1)
                         \o (IF /\ AfterWs(s, Min(hits) + 4) <= Len(s)
                                /\ Ch(s, Len(s)) = "\n"
                             THEN "\n" ELSE "")
        \* lines 395-410: the vendor of the 'we have' fallback
        we_have_vendor(markup) ==
            IF Contains(lower(markup), " and ")
            THEN join_vendors(markup, TRUE)
            ELSE strip(sub_trailing_punctuation(sub_with_clause(markup)))
        \* lines 333-416 for the matches of the six patterns with their
        \* cleaned groups, and the matches of the two fallbacks with theirs
        decide(found, vendors, from_match, from_vendor,
               fallback_match, fallback_vendor) ==
            LET accepted == {k \in 1..Len(found) :
                                /\ found[k].found
                                /\ ~looks_like_link(vendors[k])
                                /\ Len(vendors[k]) > 2 /\ Len(vendors[k]) < 100}
            IN  IF accepted # {} THEN returned_vendor(vendors[Min(accepted)])
                ELSE IF /\ from_match.found
                        /\ ~looks_like_link(from_vendor)
                        /\ Len(from_vendor) > 2 /\ Len(from_vendor) < 50
                     THEN returned_vendor(from_vendor)
                ELSE IF /\ fallback_match.found
                        /\ ~looks_like_link(fallback_vendor)
                        /\ Len(fallback_vendor) > 2 /\ Len(fallback_vendor) < 100
                     THEN returned_vendor(fallback_vendor)
                ELSE "N/A"
        \* the clean-up of each match: lines 336-368, 378-381 and 392-410
        cleaned(found, from_match, fallback_match) ==
            decide(found,
                   [k \in 1..Len(found) |-> clean_pattern_vendor(found[k].group)],
                   from_match,
                   strip(sub_trailing_punctuation(without_markup(from_match.group))),
                   fallback_match,
                   we_have_vendor(without_markup(fallback_match.group)))
        \* the searches in the text: lines 333-334, 376 and 390
        searched(text) ==
            cleaned(patterns(text), search_from(text), search_we_have_fallback(text))
    IN  searched(re_sub("open_link", 
                     re_sub("bare_link", 
                         re_sub("labelled_link", html_unescape(message.text, 1), 1), 1), 1))

(***************************************************************************)
(* extract_menu_items                                                      *)
(***************************************************************************)
\* str.split('\n')
RECURSIVE split_lines(_, _)
split_lines(s, i) ==
    LET n == FirstOf(s, i, {"\n"})
    IN  IF n > Len(s) THEN <<Slice(s, i, Len(s))>>
        ELSE <<Slice(s, i, n - 1)>> \o split_lines(s, n + 1)

start_indicators ==
    {"here's what", "menu:", "options:", "today we have", "in the menu", "we have"}

stop_keywords == {"please check", "enjoy", "happy", "@toronto"}

ingredient_keywords ==
    {"sauce", "seasonal", "pickled", "seeds", "dressing", "marinated",
     "topped with", "served with"}

\* the pieces cut at the matches (spans <<start, end>>: first index, index
\* behind the match), each kept up to and including its closing bracket,
\* then the rest of the line; pieces of at most 5 characters are dropped
RECURSIVE split_at(_, _, _)
split_at(s, last_pos, matches) ==
    IF matches = {}
    THEN IF last_pos <= Len(s) /\ Len(strip(Slice(s, last_pos, Len(s)))) > 5
         THEN <<strip(Slice(s, last_pos, Len(s)))>>
         ELSE <<>>
    ELSE LET m == CHOOSE x \in matches : \A y \in matches : x[1] <= y[1]
             item == strip(Slice(s, last_pos, m[1]))
         IN  (IF Len(item) > 5 THEN <<item>> ELSE <<>>)
                 \o split_at(s, m[2], matches \ {m})

\* step 4: the items found on one cleaned line
items_in_line(line_clean) ==
    LET s == line_clean
        \* the spans of re.finditer(r'\)(?=[A-Z][a-z])', s)
        matches ==
            {<<p, p + 1>> : p \in {q \in 1..Len(s) :
                /\ CharAt(s, q) = ")"
                /\ Ch(s, q + 1) \in UpperSet
                /\ Ch(s, q + 2) \in LowerSet}}
        \* index behind \)\s*(?:,\s*|and\s+) at p under re.IGNORECASE, 0 when
        \* the pattern does not match at p
        comma_and_end(p) ==
            LET q == AfterWs(s, p + 1)
            IN  IF CharAt(s, p) # ")" THEN 0
                ELSE IF Ch(s, q) = "," THEN AfterWs(s, q + 1)
                ELSE IF /\ StartsWithAt(lower(s), q, "and")
                        /\ Ch(s, q + 3) \in WhitespaceSet
                     THEN AfterWs(s, q + 3)
                ELSE 0
        \* the spans of re.finditer(r'\)\s*(?:,\s*|and\s+)', s, re.IGNORECASE)
        comma_and_matches ==
            {<<p, comma_and_end(p)>> :
                p \in {q \in 1..Len(s) : comma_and_end(q) # 0}}
    IN  IF matches # {} THEN split_at(s, 1, matches)
        ELSE IF comma_and_matches # {} THEN split_at(s, 1, comma_and_matches)
        ELSE <<s>>

\* step 5 for one item: the display name, "" when the item is skipped
display_name(raw_item) ==
    LET item == strip(raw_item)
        item_lower == lower(item)
        ingredient_count ==
            Cardinality({word \in ingredient_keywords : Contains(item_lower, word)})
        \* the indices of the commas of item, and the n-th of them
        commas == {k \in 1..Len(item) : CharAt(item, k) = ","}
        comma(n) == CHOOSE x \in commas : Cardinality({y \in commas : y < x}) = n - 1
        \* index of the closing bracket of the leftmost match of
        \* re.search(r'\([^)]*?(?:GF|DF|VG|V|HALAL|NF)[^)]*?\)', item,
        \*           re.IGNORECASE), 0 when there is none
        hits == {q \in 1..Len(item) :
                    /\ CharAt(item, q) = "("
                    /\ FirstOf(item, q + 1, {")"}) <= Len(item)
                    /\ \E tag \in DietaryTags :
                          Contains(lower(Slice(item, q + 1,
                                               FirstOf(item, q + 1, {")"}) - 1)),
                                   lower(tag))}
        end == IF hits = {} THEN 0 ELSE FirstOf(item, Min(hits) + 1, {")"})
    IN  IF Len(item) < 5 THEN ""
        ELSE IF ingredient_count >= 2
                /\ (Len(item) > 60 \/ Cardinality(commas) > 3) THEN ""
        ELSE IF end # 0 THEN strip(Slice(item, 1, end))
        ELSE IF Cardinality(commas) > 3
             THEN IF comma(2) - 1 < 60
                  THEN strip(Slice(item, 1, comma(2) - 1))
                  ELSE IF comma(1) - 1 < 50
                  THEN strip(Slice(item, 1, comma(1) - 1))
                  ELSE strip(Slice(item, 1, 60))
        ELSE IF Len(item) > 80 THEN strip(Slice(item, 1, 60))
        ELSE item

\* the loop `for item in items_in_line`: append each new display name of
\* more than 3 characters
RECURSIVE add_items(_, _)
add_items(all_items, items) ==
    IF items = <<>> THEN all_items
    ELSE LET name == display_name(Head(items))
         IN  add_items(IF /\ Len(name) > 3
                          /\ \A k \in 1..Len(all_items) : all_items[k] # name
                       THEN Append(all_items, name)
                       ELSE all_items,
                       Tail(items))

\* the loop `for line in lines` from line k on
RECURSIVE scan_lines(_, _, _, _)
scan_lines(lines, k, found_menu_start, all_items) ==
    IF k > Len(lines) THEN all_items
    ELSE LET line_clean == strip(lines[k])
             is_start == ContainsAny(lower(line_clean), start_indicators)
             found == found_menu_start \/ is_start
             \* re.sub(r'^[-*]\s*', '', s); the source's class also lists the
             \* bytes of a mis-encoded bullet character, which ASCII texts
             \* never hold
             sub_leading_bullet(s) ==
                 IF Ch(s, 1) \in {"-", "*"} THEN Slice(s, AfterWs(s, 2), Len(s))
                 ELSE s
             cleaned == sub_leading_bullet(strip(re_sub("emoji_name", line_clean, 1)))
         IN  IF line_clean = "" THEN scan_lines(lines, k + 1, found_menu_start, all_items)
             ELSE IF is_start /\ ~dietary_search(line_clean)
                  THEN scan_lines(lines, k + 1, TRUE, all_items)
             ELSE IF ~found THEN scan_lines(lines, k + 1, FALSE, all_items)
             ELSE IF ContainsAny(lower(line_clean), stop_keywords) THEN all_items
             ELSE IF Len(cleaned) < 5 THEN scan_lines(lines, k + 1, TRUE, all_items)
             ELSE scan_lines(lines, k + 1, TRUE,
                             add_items(all_items, items_in_line(cleaned)))

extract_menu_items(message) ==
    LET all_items ==
            scan_lines(split_lines(html_unescape(message.text, 1), 1), 1, FALSE, <<>>)
        \* step 6: the first three names, and the number of the others
        preview ==
            join(", ", SubSeq(all_items, 1, IF Len(all_items) > 3 THEN 3
                                            ELSE Len(all_items)))
                \o (IF Len(all_items) > 3
                    THEN " (+" \o ToString(Len(all_items) - 3) \o ")"
                    ELSE "")
    IN  IF all_items = <<>> THEN "Menu details in post"
        ELSE "Items: " \o preview

\* the dashboard's clean_display_text: unescape HTML entities once, remove
\* every asterisk, trim
clean_display_text(x) ==
    strip(re_sub("asterisks", html_unescape(x, 1), 1))

(***************************************************************************)
(* Unit harness: one message is handed to is_lunch_message and then, with  *)
(* the date_obj that parse_date_from_message derives from it, to           *)
(* get_message_priority_score; the variant message carries the text with   *)
(* probe_ins appended.                                                     *)
(***************************************************************************)
\* Monday 00:00 Eastern of the two modelled weeks, as Unix seconds:
\* 2024-01-15 (EST) and 2024-07-15 (EDT)
WeekStart == [winter |-> 1705294800, summer |-> 1721016000]

\* the timestamp of an Eastern wall-clock reading
EncodeEastern(wall) ==
    WeekStart[wall.week] + wall.dow * 86400 + wall.hour * 3600
        + wall.minute * 60 + wall.second

LocalZones == {"US/Eastern", "UTC"}

BaseTexts ==
    {"@toronto hi",
     "hi team",
     "<!subteam^S1> hi",
     "Lunch has arrived! menu: we have pizza from Toben (GF)",
     "@Toronto leftover pizza: lunch is here (V)",
     "@toronto if you missed out, lunch is ready",
     "@toronto Reminder: menu: bowl",
     "@toronto mixer from Toben (GF)",
     "@toronto Bowl (GF)",
     "@toronto Wrap (HALAL)",
     "@toronto we have Pizza Co",
     "@toronto We have Calii Love today!",
     "@toronto we have news",
     "@toronto next week (V)",
     "@toronto Monday: Makers",
     "@toronto sent from Toben",
     "@toronto Lunch has arrived!",
     "@toronto here's what's on the menu"}

DietaryInsertions == {"(GF, DF)", "(V)", "(HALAL)"}

Insertions ==
    DietaryInsertions \cup MenuTriggers

SampleClocks ==
    {<<0, 0>>, <<10, 59>>, <<11, 0>>, <<11, 40>>, <<12, 0>>, <<12, 15>>,
     <<12, 16>>, <<13, 0>>, <<13, 1>>, <<23, 59>>}

Wall(week, dow, hm, second) ==
    [week |-> week, dow |-> dow, hour |-> hm[1], minute |-> hm[2],
     second |-> second]

\* every minute of one day for the bare tagged text; every text at the
\* sample clocks; every text with every inserted phrase at two clocks
ProbeInputs ==
    {<<"@toronto hi", "", Wall("winter", 0, <<h, m>>, 0)>> :
        h \in 0..23, m \in 0..59}
    \cup
    {<<t, "", Wall(w, 0, hm, s)>> :
        t \in BaseTexts, w \in {"winter", "summer"}, hm \in SampleClocks,
        s \in {0, 59}}
    \cup
    {<<t, ins, Wall("winter", 0, hm, 0)>> :
        t \in BaseTexts, ins \in Insertions, hm \in {<<12, 0>>, <<15, 30>>}}

Reaction(name, count) == [name |-> name, count |-> count]

NoThread == ""

\* a Slack message: text, ts, reactions and, when it roots a thread, thread_ts
Msg(text, ts, reactions, thread_ts) ==
    [text |-> text, ts |-> ts, reactions |-> reactions, thread_ts |-> thread_ts]

Message(text, ts) == Msg(text, ts, <<>>, NoThread)

NoMessage == Message("", NoTs)

NoRet == [is_lunch |-> None, date_obj |-> None, score |-> None,
          score_variant |-> None, sentiment |-> None, rating |-> None,
          vendor |-> None, menu |-> None]

Variant == Message(probe.text \o " " \o probe_ins, probe.ts)

InitUnit ==
    /\ localtz \in LocalZones
    /\ \E p \in ProbeInputs :
          /\ probe = Message(p[1], EncodeEastern(p[3]))
          /\ probe_ins = p[2]
          /\ probe_wall = p[3]
    /\ probe_replies = <<>>
    /\ ret = NoRet
    /\ pc = "probe"
    /\ messages = <<>>
    /\ idx = 1
    /\ lunch_by_date = <<>>
    /\ lunch_data = <<>>
    /\ result = NotReturned
    /\ reply_fetches = <<>>
    /\ history = <<>>
    /\ oldest_timestamp = 0
    /\ cursor = 0
    /\ all_messages = <<>>
    /\ fetch_log = <<>>
    /\ dashboard = NoDashboard

CallIsLunchMessage ==
    /\ pc = "probe"
    /\ ret' = [ret EXCEPT !.is_lunch = is_lunch_message(probe)]
    /\ pc' = "classified"
    /\ UNCHANGED <<localtz, probe, probe_wall, probe_ins, probe_replies, pipeline_vars>>

CallPriorityScore ==
    /\ pc = "classified"
    /\ LET date_obj == parse_date_from_message(localtz, probe)[2]
       IN  ret' = [ret EXCEPT
                     !.date_obj = date_obj,
                     !.score = get_message_priority_score(probe, date_obj),
                     !.score_variant =
                         get_message_priority_score(Variant, date_obj)]
    /\ pc' = "scored"
    /\ UNCHANGED <<localtz, probe, probe_wall, probe_ins, probe_replies, pipeline_vars>>

NextUnit == CallIsLunchMessage \/ CallPriorityScore

SpecUnit == InitUnit /\ [][NextUnit]_vars

(***************************************************************************)
(* Sentiment harness: a root message with its reactions and the replies of *)
(* its thread is handed to calculate_sentiment_rating; the root text is    *)
(* also handed to analyze_sentiment on its own.                            *)
(***************************************************************************)
\* a reply of a thread: its text and its reactions
Reply(text, reactions) == [text |-> text, reactions |-> reactions]

MaxCount == 3

MaxReactions == 2

RootTexts ==
    {"@toronto we have Toben",
     "@toronto lunch is Rescheduled to 1pm",
     "@toronto quick change: we have Toben"}

\* texts handed to analyze_sentiment alone
SentimentTexts ==
    {"ok thanks", "amazing", "amazing amazing", "amazing amazing amazing",
     "Delicious, just delicious", "bland", "bland bland", "loved it",
     "not good", "so good and tasty", "meh, bad bad",
     ":sad_heart:", ":fire:", ":x:", ":exploding_head:", ":thumbsdown:",
     ":heart: :heart:", ":broken-heart:", "great :sad_star: bad",
     "12:30 works: fine", ":eyes:"}

ReplyTexts ==
    {"so good!", "meh", "ok thanks", "loved it :fire:", "meh, bad bad"}

ReactionNames ==
    {"+1", "thumbsup", "fire", "yum", "heart_eyes", "star_struck", "100",
     "exploding_head", "heart", "star", "clap", "sparkling_heart",
     "white_check_mark", "chef", "eyes", "Fire"}

\* <<root text, root reactions, thread replies>>
SentimentProbes ==
    LET \* one reaction of any name and count
        SingleReactions ==
            {<<Reaction(n, c)>> : n \in ReactionNames, c \in 1..MaxCount}
        \* reaction lists of up to MaxReactions entries over a few names
        few == {Reaction(n, 1) : n \in {"+1", "fire", "yum", "eyes"}}
                   \cup {Reaction("fire", MaxCount)}
        ReactionLists == UNION {[1..n -> few] : n \in 0..MaxReactions}
    IN  {<<t, <<>>, <<>>>> : t \in SentimentTexts}
        \cup
        {<<t, rs, <<>>>> : t \in RootTexts, rs \in SingleReactions \cup ReactionLists}
        \cup
        {<<t, rs, <<Reply(rt, rr)>>>> :
            t \in RootTexts, rs \in {<<>>, <<Reaction("+1", 1)>>},
            rt \in ReplyTexts, rr \in SingleReactions \cup {<<>>}}
        \cup
        {<<t, <<>>, <<Reply(rt, <<>>), Reply("so good!", rr)>>>> :
            t \in RootTexts, rt \in ReplyTexts,
            rr \in {<<>>, <<Reaction("fire", 1), Reaction("100", 1)>>}}

InitSentiment ==
    /\ localtz = "US/Eastern"
    /\ \E p \in SentimentProbes :
          /\ probe = Msg(p[1], EncodeEastern(Wall("winter", 0, <<12, 0>>, 0)),
                         p[2], NoThread)
          /\ probe_replies = p[3]
    /\ probe_ins = ""
    /\ probe_wall = None
    /\ ret = NoRet
    /\ pc = "probe"
    /\ messages = <<>>
    /\ idx = 1
    /\ lunch_by_date = <<>>
    /\ lunch_data = <<>>
    /\ result = NotReturned
    /\ reply_fetches = <<>>
    /\ history = <<>>
    /\ oldest_timestamp = 0
    /\ cursor = 0
    /\ all_messages = <<>>
    /\ fetch_log = <<>>
    /\ dashboard = NoDashboard

CallAnalyzeSentiment ==
    /\ pc = "probe"
    /\ ret' = [ret EXCEPT !.sentiment = analyze_sentiment(probe.text)]
    /\ pc' = "analyzed"
    /\ UNCHANGED <<localtz, probe, probe_wall, probe_ins, probe_replies, pipeline_vars>>

CallSentimentRating ==
    /\ pc = "analyzed"
    /\ ret' = [ret EXCEPT
                 !.rating = calculate_sentiment_rating(probe, probe_replies)]
    /\ pc' = "rated"
    /\ UNCHANGED <<localtz, probe, probe_wall, probe_ins, probe_replies, pipeline_vars>>

NextSentiment == CallAnalyzeSentiment \/ CallSentimentRating

SpecSentiment == InitSentiment /\ [][NextSentiment]_vars

(***************************************************************************)
(* Extraction harness: one message text is handed to extract_vendor_name   *)
(* and to extract_menu_items.                                              *)
(***************************************************************************)
ExtractTexts ==
    {"Lunch has arrived! We have Toben: Bowl (GF, DF) Rice (V)",
     "today we have Calii Love",
     "we have African Palace today",
     "we have East Coast inspired meals today",
     "Today we have Maker Pizza today and Pi Co",
     "we have Lala's Cantina with some delicious tacos",
     "@toronto choose a bowl from Toben!",
     "Lunch is from Xy. choose a wrap from Toben Eats.",
     "@toronto lunch is here from Mac &amp; Cheese Co.",
     "we have Salt &amp;amp; Pepper today",
     "we have *Pizza Co* today!",
     "we have Pi Co and Maker Pizza (Gluten Free) today",
     "We have Pi Co today and Maker Pizza (Gluten Free).",
     "we have Toben :dancing-fish: today",
     "we have <https://toben.example|Toben Eats> today",
     "we have <https://toben.example> today",
     "we have <https://toben.example",
     "Lunch has arrived - we have Toben today",
     "Lunch has arrived and it is great. we have it",
     "lunch from 12pm",
     "@toronto lunch is ready",
     "we have Toben here for you",
     "we have Sandwich Menu (V):",
     "we have Bo.",
     "We have Andy's Kitchen",
     "we have Toben with rice\nmenu:\nBowl (GF)\nRice (V)\nenjoy!\nCake (V)",
     "Here's what's on the menu:\n- Chicken Bowl (GF, DF)\n- Tofu Wrap (VG)\nPlease check labels",
     "menu:\nChicken (GF)Beef Stew (DF)Rice Pilaf (V)",
     "options:\nChicken (GF), Beef (DF) and Rice (V), Tofu (VG)",
     "menu:\nSoup\nSalad\nBread\nCake\nJuice",
     "menu:\nBowl with sauce, pickled onion, seeds, dressing, herbs and more things to eat today",
     "menu:\nRoasted chicken, rice, beans, salsa, lime\nTaco",
     "we have tacos (gf)\n:taco: Fish Taco\n* Veg Taco (v)\n@toronto enjoy",
     "@toronto we have Toben\nBowl (GF)",
     "options: A (V)\nmenu: Very good chicken bowl (HALAL)",
     "Bowl (GF)\nwe have Toben\nBowl (GF)\nBowl (GF)\nhappy friday\nRice (V)",
     "we have a very long line that is certainly much longer than eighty characters in total length here\nmenu: x",
     "",
     "we have\nToben",
     "from  Toben Eats !",
     "we have Toben &lt;3",
     "we have Maker and Pi",
     "menu:\nA plate of roasted seasonal vegetables on a bed of warm grains and fresh herbs from the market",
     "menu:\nOne, two, three, four, five",
     "menu:\nBowl (GF)\nWrap (V)\nSoup of the day\nCake (NF)\nJuice bar\nBowl (GF)",
     "menu: Bowl (GF) and Wrap (V)",
     "we have O&amp;amp;B today",
     "we have O&amp;amp;amp;B today",
     "today we have Mac &amp;amp;amp; Cheese Co",
     "menu:\nBowl (GF)\nenjoy what we have\nCake (NF)",
     "menu:\nBowl (GF)\nenjoy what we have (V)\nCake (NF)",
     "happy friday\nmenu:\nBowl (GF)\nRice (V)"}

InitExtract ==
    /\ localtz = "US/Eastern"
    /\ \E t \in ExtractTexts :
          probe = Message(t, EncodeEastern(Wall("winter", 0, <<12, 0>>, 0)))
    /\ probe_replies = <<>>
    /\ probe_ins = ""
    /\ probe_wall = None
    /\ ret = NoRet
    /\ pc = "probe"
    /\ messages = <<>>
    /\ idx = 1
    /\ lunch_by_date = <<>>
    /\ lunch_data = <<>>
    /\ result = NotReturned
    /\ reply_fetches = <<>>
    /\ history = <<>>
    /\ oldest_timestamp = 0
    /\ cursor = 0
    /\ all_messages = <<>>
    /\ fetch_log = <<>>
    /\ dashboard = NoDashboard

CallExtractVendorName ==
    /\ pc = "probe"
    /\ ret' = [ret EXCEPT !.vendor = extract_vendor_name(probe)]
    /\ pc' = "vendor"
    /\ UNCHANGED <<localtz, probe, probe_wall, probe_ins, probe_replies, pipeline_vars>>

CallExtractMenuItems ==
    /\ pc = "vendor"
    /\ ret' = [ret EXCEPT !.menu = extract_menu_items(probe)]
    /\ pc' = "menu"
    /\ UNCHANGED <<localtz, probe, probe_wall, probe_ins, probe_replies, pipeline_vars>>

NextExtract == CallExtractVendorName \/ CallExtractMenuItems

SpecExtract == InitExtract /\ [][NextExtract]_vars

(***************************************************************************)
(* analyze_lunches: the scan over the fetched messages keeps one entry per *)
(* date in lunch_by_date, a dict in insertion order, modelled as the       *)
(* sequence of its values (each value carries its key in .date).           *)
(***************************************************************************)
MaxMsgs == 3

\* the replies of the channel's threads, keyed by thread_ts
Threads ==
    [T1 |-> <<Reply("so good!", <<Reaction("+1", 2)>>), Reply("meh", <<>>)>>,
     T2 |-> <<Reply("loved it :fire:", <<Reaction("heart", 1)>>)>>,
     T3 |-> <<Reply("meh, bad bad", <<>>)>>]

\* the messages the channel history can hold
ChannelMessages ==
    {Message("@toronto we have Toben bowls",
             EncodeEastern(Wall("winter", 0, <<12, 20>>, 0))),
     Msg("<!subteam^S1> We have Calii Love today!",
         EncodeEastern(Wall("winter", 0, <<12, 0>>, 0)),
         <<Reaction("fire", 5)>>, "T1"),
     Message("@toronto leftover pizza",
             EncodeEastern(Wall("winter", 0, <<11, 50>>, 0))),
     Message("@toronto we have Pizza Co",
             EncodeEastern(Wall("winter", 0, <<11, 40>>, 0))),
     Msg("@toronto Lunch has arrived!",
         EncodeEastern(Wall("winter", 1, <<12, 5>>, 0)),
         <<Reaction("+1", 1), Reaction("heart_eyes", 1)>>, NoThread),
     Msg("@toronto we have salad",
         EncodeEastern(Wall("winter", 1, <<11, 0>>, 0)),
         <<>>, "T2"),
     Msg("@toronto we have soup",
         EncodeEastern(Wall("winter", 2, <<12, 0>>, 0)),
         <<>>, "T3"),
     Message("@toronto lunch today",
             EncodeEastern(Wall("winter", 4, <<21, 0>>, 0))),
     Message("@toronto lunch is here",
             EncodeEastern(Wall("winter", 5, <<11, 30>>, 0))),
     Message("@toronto lunch is ready",
             EncodeEastern(Wall("winter", 6, <<22, 0>>, 0)))}

\* conversations.history returns the messages newest first
NewestFirst(ms) == \A a, b \in 1..Len(ms) : a < b => ms[a].ts > ms[b].ts

Histories ==
    {ms \in UNION {[1..n -> ChannelMessages] : n \in 0..MaxMsgs} :
        NewestFirst(ms)}

\* conversations.history hands out at most `limit` messages per page
PageSize == 2

\* the start of the period: before every message of the channel, or the
\* midnight that opens the channel's second day
SinceChoices == {0, EncodeEastern(Wall("winter", 1, <<0, 0>>, 0))}

Init ==
    /\ localtz \in LocalZones
    /\ history \in Histories
    /\ oldest_timestamp \in SinceChoices
    /\ messages = <<>>
    /\ pc = "channel"
    /\ idx = 1
    /\ lunch_by_date = <<>>
    /\ lunch_data = <<>>
    /\ result = NotReturned
    /\ reply_fetches = <<>>
    /\ cursor = 0
    /\ all_messages = <<>>
    /\ fetch_log = <<>>
    /\ dashboard = NoDashboard
    /\ probe = NoMessage
    /\ probe_wall = None
    /\ probe_ins = ""
    /\ probe_replies = <<>>
    /\ ret = NoRet

\* what conversations.list leads to: the lunch channel's id is found, or
\* every attempt fails and an exception leaves get_lunch_channel_id
ChannelAnswers == {"lunch channel listed", "no lunch channel", "invalid_auth"}

get_lunch_channel_id(answer) ==
    IF answer = "lunch channel listed" THEN "id" ELSE "raise"

\* lines 754-760: CHANNEL_ID from the environment, else the lookup
GetChannelId ==
    /\ pc = "channel"
    /\ \E CHANNEL_ID \in {"id", ""} : \E answer \in ChannelAnswers :
          LET channel_id == IF CHANNEL_ID # "" THEN CHANNEL_ID
                            ELSE get_lunch_channel_id(answer)
          IN  /\ pc' = IF channel_id = "raise" THEN "raised" ELSE "fetch"
              /\ result' = IF channel_id = "raise" THEN Raised ELSE result
    /\ UNCHANGED <<localtz, messages, idx, lunch_by_date, lunch_data,
                   reply_fetches, fetch_vars, fetch_log, dashboard, unit_vars>>

\* what conversations.history can answer to a request with this cursor:
\* the next page of the history, with a next cursor while messages remain
\* behind it; an error payload; or no answer at all (timeout, transport)
HistoryResponses(h, c) ==
    {[status |-> "ok",
      messages |-> SubSeq(h, c + 1, Min({c + PageSize, Len(h)})),
      next_cursor |-> IF c + PageSize < Len(h) THEN c + PageSize ELSE 0],
     [status |-> "invalid_auth", messages |-> <<>>, next_cursor |-> 0],
     [status |-> "exception", messages |-> <<>>, next_cursor |-> 0]}

page_ends_fetch_on_cursor_only(response, oldest) ==
    \/ response.status # "ok"
    \/ response.messages = <<>>
    \/ response.next_cursor = 0

\* the breaks of the loop of fetch_messages: a failed request, an answer
\* that is not ok, an empty page, a page whose last message is older than
\* the period, a page without next cursor
page_ends_fetch(response, oldest) ==
    \/ response.status # "ok"
    \/ response.messages = <<>>
    \/ response.messages[Len(response.messages)].ts < oldest
    \/ response.next_cursor = 0

\* one iteration of `while True` in fetch_messages; the iteration that
\* breaks returns all_messages to analyze_lunches
FetchPage ==
    /\ pc = "fetch"
    /\ \E response \in HistoryResponses(history, cursor) :
          /\ all_messages' = IF response.status = "ok"
                             THEN all_messages \o response.messages
                             ELSE all_messages
          /\ cursor' =
                IF /\ response.status = "ok"
                   /\ response.messages # <<>>
                   /\ response.messages[Len(response.messages)].ts
                          >= oldest_timestamp
                THEN response.next_cursor
                ELSE cursor
          /\ fetch_log' = Append(fetch_log,
                              [api |-> "conversations.history",
                               arg |-> cursor,
                               status |-> response.status])
          /\ pc' = IF page_ends_fetch(response, oldest_timestamp)
                   THEN "scan" ELSE "fetch"
    /\ messages' = IF pc' = "scan" THEN all_messages' ELSE messages
    /\ UNCHANGED <<localtz, idx, lunch_by_date, lunch_data, result,
                   reply_fetches, history, oldest_timestamp, dashboard,
                   unit_vars>>

is_weekend_sunday_only(date_obj) == weekday(date_obj) > 5

\* date_obj.weekday() >= 5
is_weekend(date_obj) == weekday(date_obj) >= 5

replaces_on_tie(priority_score, existing_score) == priority_score >= existing_score

\* priority_score > existing_score
replaces(priority_score, existing_score) == priority_score > existing_score

\* `date in lunch_by_date`: the position of the key, 0 when absent
KeyIndex(d, date) ==
    IF \E k \in 1..Len(d) : d[k].date = date
    THEN CHOOSE k \in 1..Len(d) : d[k].date = date
    ELSE 0

put_candidate_keeps_every_candidate(d, entry) == Append(d, entry)

\* lines 845-867: insert the entry, or replace the held one when the score
\* is strictly greater (a replaced key keeps its position in the dict)
put_candidate(d, entry) ==
    LET k == KeyIndex(d, entry.date)
    IN  IF k # 0
        THEN IF replaces(entry.priority_score, d[k].priority_score)
             THEN [d EXCEPT ![k] = entry]
             ELSE d
        ELSE Append(d, entry)

\* one iteration of `for message in messages`
ScanMessage ==
    /\ pc = "scan"
    /\ idx <= Len(messages)
    /\ LET message == messages[idx]
           parsed == parse_date_from_message(localtz, message)
           date == parsed[1]
           date_obj == parsed[2]
       IN  lunch_by_date' =
               IF ~is_lunch_message(message) THEN lunch_by_date
               ELSE IF date = NoDate \/ date_obj = NoDateObj THEN lunch_by_date
               ELSE IF is_weekend(date_obj) THEN lunch_by_date
               ELSE put_candidate(lunch_by_date,
                        [message |-> message,
                         date |-> date,
                         date_obj |-> date_obj,
                         priority_score |->
                             get_message_priority_score(message, date_obj)])
    /\ idx' = idx + 1
    /\ UNCHANGED <<localtz, messages, pc, lunch_data, result, reply_fetches,
                   fetch_vars, fetch_log, dashboard, unit_vars>>

\* the scan loop is exhausted; the loop over lunch_by_date.items() starts
ScanDone ==
    /\ pc = "scan"
    /\ idx > Len(messages)
    /\ pc' = "process"
    /\ idx' = 1
    /\ UNCHANGED <<localtz, messages, lunch_by_date, lunch_data, result,
                   reply_fetches, fetch_vars, fetch_log, dashboard, unit_vars>>

\* what conversations.replies can answer for a thread: the root followed by
\* the replies, an error payload, or no answer at all (timeout, transport)
Responses(message) ==
    {[status |-> "ok", messages |-> <<message>> \o Threads[message.thread_ts]],
     [status |-> "ok", messages |-> <<message>>],
     [status |-> "error", messages |-> <<>>],
     [status |-> "exception", messages |-> <<>>]}

fetch_thread_replies_placeholder_on_failure(response) ==
    IF response.status = "ok"
    THEN IF Len(response.messages) > 1 THEN Tail(response.messages) ELSE <<>>
    ELSE <<Reply("", <<>>)>>

\* lines 573-583: the answer's messages behind the root; an answer that is
\* not ok and a failed request both give the empty list
fetch_thread_replies(response) ==
    IF response.status = "ok"
    THEN IF Len(response.messages) > 1 THEN Tail(response.messages) ELSE <<>>
    ELSE <<>>

\* one iteration of `for date, lunch_info in lunch_by_date.items()`
\* (the vendor and menu fields of the record are not modelled)
ProcessDate ==
    /\ pc = "process"
    /\ idx <= Len(lunch_by_date)
    /\ LET lunch_info == lunch_by_date[idx]
           message == lunch_info.message
       IN  \E response \in
               (IF message.thread_ts # NoThread THEN Responses(message)
                ELSE {[status |-> "none", messages |-> <<>>]}) :
             LET thread_replies ==
                     IF message.thread_ts # NoThread
                     THEN fetch_thread_replies(response)
                     ELSE <<>>
             IN  /\ lunch_data' = Append(lunch_data,
                        [date |-> lunch_info.date,
                         sentiment_rating |->
                             calculate_sentiment_rating(message, thread_replies),
                         reply_count |-> Len(thread_replies)])
                 /\ fetch_log' =
                        IF message.thread_ts # NoThread
                        THEN Append(fetch_log,
                                 [api |-> "conversations.replies",
                                  arg |-> message.thread_ts,
                                  status |-> response.status])
                        ELSE fetch_log
    /\ reply_fetches' =
          IF lunch_by_date[idx].message.thread_ts # NoThread
          THEN Append(reply_fetches, lunch_by_date[idx].message.thread_ts)
          ELSE reply_fetches
    /\ idx' = idx + 1
    /\ UNCHANGED <<localtz, messages, pc, lunch_by_date, result, fetch_vars,
                   dashboard, unit_vars>>

InsertDesc_before_equals(rows, x) ==
    LET n == Cardinality({k \in 1..Len(rows) :
                              rows[k].sentiment_rating > x.sentiment_rating})
    IN  SubSeq(rows, 1, n) \o <<x>> \o SubSeq(rows, n + 1, Len(rows))

\* insert x behind every row whose rating is not smaller
InsertDesc(rows, x) ==
    LET n == Cardinality({k \in 1..Len(rows) :
                              rows[k].sentiment_rating >= x.sentiment_rating})
    IN  SubSeq(rows, 1, n) \o <<x>> \o SubSeq(rows, n + 1, Len(rows))

\* sorted(lunch_data, key=sentiment_rating, reverse=True), a stable sort
RECURSIVE sorted_by_rating(_)
sorted_by_rating(rows) ==
    IF rows = <<>> THEN <<>>
    ELSE InsertDesc(sorted_by_rating(SubSeq(rows, 1, Len(rows) - 1)),
                    rows[Len(rows)])

DayAbbr == <<"Mon", "Tue", "Wed", "Thu", "Fri", "Sat", "Sun">>

with_rank_from_zero(rows) ==
    [i \in 1..Len(rows) |->
        [date |-> rows[i].date,
         sentiment_rating |-> rows[i].sentiment_rating,
         reply_count |-> rows[i].reply_count,
         rank |-> i - 1,
         weekday |-> DayAbbr[((rows[i].date + 3) % 7) + 1]]]

\* lines 925-929: rank by position, weekday from the record's date
with_rank(rows) ==
    [i \in 1..Len(rows) |->
        [date |-> rows[i].date,
         sentiment_rating |-> rows[i].sentiment_rating,
         reply_count |-> rows[i].reply_count,
         rank |-> i,
         weekday |-> DayAbbr[((rows[i].date + 3) % 7) + 1]]]

Finish_returns_list_always ==
    /\ pc = "process"
    /\ idx > Len(lunch_by_date)
    /\ result' = ReturnList(with_rank(sorted_by_rating(lunch_data)))
    /\ pc' = "done"
    /\ UNCHANGED <<localtz, messages, idx, lunch_by_date, lunch_data,
                   reply_fetches, fetch_vars, fetch_log, dashboard, unit_vars>>

\* the second loop is exhausted: return None, or sort, rank and return
Finish ==
    /\ pc = "process"
    /\ idx > Len(lunch_by_date)
    /\ result' = IF lunch_data = <<>> THEN ReturnNone
                 ELSE ReturnList(with_rank(sorted_by_rating(lunch_data)))
    /\ pc' = "done"
    /\ UNCHANGED <<localtz, messages, idx, lunch_by_date, lunch_data,
                   reply_fetches, fetch_vars, fetch_log, dashboard, unit_vars>>

\* app.py with its widgets untouched: no vendor selected, the slider of
\* the minimum rating at its initial value.  The page is rendered for a
\* non-empty result only (st.stop() otherwise).
ShowDashboard ==
    /\ pc = "done"
    /\ result.kind = "list"
    /\ LET df == result.rows
           selected_vendors == {}
           max_rating == CHOOSE x \in {df[k].sentiment_rating : k \in 1..Len(df)} :
                             \A k \in 1..Len(df) : df[k].sentiment_rating <= x
           min_score == 0
       IN  dashboard' =
               [shown |-> TRUE,
                slider |-> [min_value |-> 0, max_value |-> max_rating,
                            value |-> min_score],
                filtered_df |->
                    SelectSeq(df, LAMBDA row : row.sentiment_rating >= min_score)]
    /\ pc' = "shown"
    /\ UNCHANGED <<localtz, messages, idx, lunch_by_date, lunch_data, result,
                   reply_fetches, fetch_vars, fetch_log, unit_vars>>

Next ==
    \/ GetChannelId \/ FetchPage \/ ScanMessage \/ ScanDone \/ ProcessDate
    \/ Finish \/ ShowDashboard

Spec == Init /\ [][Next]_vars

\* fetch_messages is sequential code: while its loop can make its next
\* request, it makes it
SpecLive == Init /\ [][Next]_vars /\ WF_vars(FetchPage)

(***************************************************************************)
(* Properties.  The predicates below state the claims' conditions on the   *)
(* message itself, independently of the classifier's own tests.            *)
(***************************************************************************)
Classified == pc \in {"classified", "scored"}

MentionsAudience(text) ==
    Contains(lower(text), "@toronto") \/ Contains(lower(text), "<!subteam")

MentionsSecondary(text) ==
    \E w \in {"leftover", "missed out", "reminder", "mixer"} :
        Contains(lower(text), w)

\* a bracket holding one of GF, DF, VG, V, HALAL, NF, as written in the text
DietaryParenthetical(text) == dietary_search(text)

MentionsPreview(text) ==
    ContainsAny(lower(text), PreviewPhrases) \/ weekday_preview_search(lower(text))

\* arrival phrase, menu trigger, 'we have' or 'from' pattern
TextAcceptContent(text) ==
    \/ has_arrival_phrase(lower(text))
    \/ has_menu_trigger(lower(text))
    \/ has_we_have_pattern(lower(text))
    \/ has_from_vendor_pattern(text)

\* Eastern wall clock within 11:00 .. 12:15, minutes inclusive
InWindow(wall) ==
    LET m == wall.hour * 60 + wall.minute IN 660 <= m /\ m <= 735

\* C1: a message whose text holds neither '@toronto' nor '<!subteam' is
\* rejected by is_lunch_message, whatever its timestamp and other content.
C1_NoTagRejected ==
    (Classified /\ ~MentionsAudience(probe.text)) => ret.is_lunch = FALSE

\* an untagged message inside the window with arrival phrase, menu trigger,
\* 'we have' + food, 'from' vendor and dietary tag has been classified
C1_Witness ==
    /\ pc = "classified"
    /\ probe.text = "Lunch has arrived! menu: we have pizza from Toben (GF)"
    /\ InWindow(probe_wall)
    /\ ret.is_lunch = FALSE

\* C2: a message whose text holds a secondary-post marker (leftover, missed
\* out, reminder, mixer) is rejected even with the tag and accept conditions.
C2_SecondaryRejected ==
    (Classified /\ MentionsSecondary(probe.text)) => ret.is_lunch = FALSE

\* a tagged 'mixer' message with a 'from' vendor, inside the window
C2_Witness ==
    /\ pc = "classified"
    /\ probe.text = "@toronto mixer from Toben (GF)"
    /\ InWindow(probe_wall)
    /\ ret.is_lunch = FALSE

\* C7 (as claimed): a tagged message outside the window with no preview or
\* secondary marker, no arrival phrase, menu trigger, 'we have' or 'from'
\* pattern, but with a dietary-tag parenthetical, is accepted.
C7_DietaryAloneAccepted ==
    (/\ Classified
     /\ MentionsAudience(probe.text)
     /\ ~MentionsPreview(probe.text)
     /\ ~MentionsSecondary(probe.text)
     /\ ~InWindow(probe_wall)
     /\ ~TextAcceptContent(probe.text)
     /\ DietaryParenthetical(probe.text))
    => ret.is_lunch = TRUE

\* C8: a tagged message with no preview or secondary marker and none of the
\* text-based accept conditions is accepted exactly when its Eastern
\* time-of-day lies in [11:00, 12:15].
C8_TimeWindow ==
    (/\ Classified
     /\ MentionsAudience(probe.text)
     /\ ~MentionsPreview(probe.text)
     /\ ~MentionsSecondary(probe.text)
     /\ ~TextAcceptContent(probe.text)
     /\ ~DietaryParenthetical(probe.text))
    => (ret.is_lunch = TRUE <=> InWindow(probe_wall))

\* the bare tagged message at 12:15:59 EDT has been accepted
C8_Witness ==
    /\ pc = "classified"
    /\ probe.text = "@toronto hi"
    /\ probe_wall = Wall("summer", 0, <<12, 15>>, 59)
    /\ ret.is_lunch = TRUE

\* the claimed time component for a time-of-day
ClaimedTimeComponent(hour, minute) ==
    LET m == hour * 60 + minute
        distance == IF m >= 720 THEN m - 720 ELSE 720 - m
    IN  IF m >= 660 /\ m <= 780 THEN 1000 - distance ELSE 500 - distance

\* C9: the time component of the priority score is 1000 - |minutes from noon|
\* for a time-of-day in [11:00, 13:00] and 500 - |minutes from noon| otherwise
\* (13:00 gives 940, 13:01 gives 439, 00:00 gives -220); read off messages
\* that earn no quality bonus.
C9_TimeComponent ==
    (pc = "scored" /\ quality_bonus(lower(probe.text)) = 0)
    => /\ ret.score = ClaimedTimeComponent(ret.date_obj.hour, ret.date_obj.minute)
       /\ (ret.date_obj.hour = 13 /\ ret.date_obj.minute = 0 => ret.score = 940)
       /\ (ret.date_obj.hour = 13 /\ ret.date_obj.minute = 1 => ret.score = 439)
       /\ (ret.date_obj.hour = 0 /\ ret.date_obj.minute = 0 => ret.score = -220)

\* a bonus-free message read at 13:01 has been scored 439
C9_Witness ==
    /\ pc = "scored"
    /\ probe.text = "@toronto hi"
    /\ ret.date_obj.hour = 13
    /\ ret.date_obj.minute = 1
    /\ ret.score = 439

\* C6 (as claimed): a message with a dietary-tag parenthetical appended
\* scores exactly 300 more than the same message without it.
C6_DietaryBonus ==
    (/\ pc = "scored"
     /\ probe_ins \in DietaryInsertions
     /\ ~DietaryParenthetical(probe.text))
    => ret.score_variant = ret.score + 300

\* C10 (as claimed): a message with a classifier menu trigger ('menu:',
\* 'options:', 'on the menu', ...) appended scores exactly 200 more than the
\* same message without any trigger.
C10_MenuTriggerBonus ==
    (/\ pc = "scored"
     /\ probe_ins \in MenuTriggers
     /\ ~ContainsAny(lower(probe.text), MenuTriggers))
    => ret.score_variant = ret.score + 200

\* C10 (amended): the +200 bonus is earned only by "here's what", "what's on
\* the menu" and "what's in the menu"; with 'menu:', 'options:' or
\* 'on the menu' alone the score is that of the message without it.
C10_MenuPhraseBonus ==
    (/\ pc = "scored"
     /\ probe_ins \in MenuTriggers
     /\ ~ContainsAny(lower(probe.text), MenuTriggers))
    => ret.score_variant =
           ret.score
           + (IF probe_ins \in {"here's what", "what's on the menu",
                                "what's in the menu"}
              THEN 200 ELSE 0)

\* a bare tagged message and its variant with "what's on the menu" appended
\* have been scored 200 apart
C10_Witness ==
    /\ pc = "scored"
    /\ probe.text = "@toronto hi"
    /\ probe_ins = "what's on the menu"
    /\ ret.score_variant = ret.score + 200

(***************************************************************************)
(* Properties of the deduplication in analyze_lunches                      *)
(***************************************************************************)
\* number of messages the scan loop has processed
Scanned == IF pc = "scan" THEN idx - 1 ELSE Len(messages)

DateOf(k) == parse_date_from_message(localtz, messages[k])[1]

DateObjOf(k) == parse_date_from_message(localtz, messages[k])[2]

ScoreOf(k) == get_message_priority_score(messages[k], DateObjOf(k))

\* Monday = 0 ... Sunday = 6 for a day number
DayOfWeek(date) == (date + 3) % 7

\* the accepted weekday messages among the first n of the stream
Candidates(n) ==
    {k \in 1..n : is_lunch_message(messages[k]) /\ DayOfWeek(DateOf(k)) < 5}

\* accepted messages that fall on a Saturday or Sunday
WeekendAccepted ==
    {k \in 1..Len(messages) :
        is_lunch_message(messages[k]) /\ DayOfWeek(DateOf(k)) >= 5}

\* C3: in the returned records no two share a date, none is dated Saturday
\* or Sunday, and there is one record per distinct weekday date that had an
\* accepted message.
C3_OnePerWeekdayDate ==
    pc = "done" =>
        LET rows == result.rows
        IN  /\ \A a, b \in 1..Len(rows) : a # b => rows[a].date # rows[b].date
            /\ \A a \in 1..Len(rows) : DayOfWeek(rows[a].date) < 5
            /\ Len(rows) =
                 Cardinality({DateOf(k) : k \in Candidates(Len(messages))})

\* a run has returned after two accepted messages of one weekday date and an
\* accepted weekend message
C3_Witness ==
    /\ pc = "done"
    /\ result.kind = "list"
    /\ WeekendAccepted # {}
    /\ \E a, b \in Candidates(Len(messages)) : a # b /\ DateOf(a) = DateOf(b)

\* the candidate of date d that deduplication must hold after n messages
BestOf(n, d) ==
    LET D == {k \in Candidates(n) : DateOf(k) = d}
    IN  CHOOSE k \in D :
            \A j \in D : \/ ScoreOf(k) > ScoreOf(j)
                         \/ (ScoreOf(k) = ScoreOf(j) /\ k <= j)

\* C4: after every prefix of the stream, the entry held for a date is the
\* accepted weekday message of that date with the maximum priority score,
\* the first encountered among those sharing the maximum.
C4_KeepsFirstBest ==
    /\ {lunch_by_date[e].date : e \in 1..Len(lunch_by_date)}
         = {DateOf(k) : k \in Candidates(Scanned)}
    /\ \A e \in 1..Len(lunch_by_date) :
          LET best == BestOf(Scanned, lunch_by_date[e].date)
          IN  /\ lunch_by_date[e].message = messages[best]
              /\ lunch_by_date[e].priority_score = ScoreOf(best)

\* two candidates of one date with equal scores have been scanned and the
\* earlier one is held
C4_Witness ==
    \E a, b \in Candidates(Scanned) :
        /\ a < b
        /\ DateOf(a) = DateOf(b)
        /\ ScoreOf(a) = ScoreOf(b)
        /\ \E e \in 1..Len(lunch_by_date) : lunch_by_date[e].message = messages[a]

\* the stream holds the 'We have Calii Love today!' message read at 12:00
\* (position a) and the 'we have Pizza Co' message read at 11:40 (position
\* b) of one Monday, and no other candidate of that date
C5_Case(a, b) ==
    /\ Contains(messages[a].text, "We have Calii Love today!")
    /\ Contains(messages[b].text, "we have Pizza Co")
    /\ DateObjOf(a).hour = 12 /\ DateObjOf(a).minute = 0
    /\ DateObjOf(b).hour = 11 /\ DateObjOf(b).minute = 40
    /\ DateOf(a) = DateOf(b)
    /\ DayOfWeek(DateOf(a)) = 0
    /\ {k \in Candidates(Len(messages)) : DateOf(k) = DateOf(a)} = {a, b}

HeldFor(d) == lunch_by_date[KeyIndex(lunch_by_date, d)]

\* C5 (as claimed): the 12:00 message scores 1000, the 11:40 message 1080,
\* and the 11:40 message is the one kept.
C5_LaterMessageWins ==
    pc \in {"process", "done"} =>
        \A a, b \in 1..Len(messages) :
            C5_Case(a, b) =>
                /\ ScoreOf(a) = 1000
                /\ ScoreOf(b) = 1080
                /\ HeldFor(DateOf(a)).message = messages[b]

\* C5 (amended): both messages earn the +100 vendor bonus; the 12:00 message
\* scores 1100, the 11:40 message 1080, and the 12:00 message is kept.
C5_NoonMessageWins ==
    pc \in {"process", "done"} =>
        \A a, b \in 1..Len(messages) :
            C5_Case(a, b) =>
                /\ ScoreOf(b) = 1080
                /\ HeldFor(DateOf(a)).priority_score = 1100
                /\ HeldFor(DateOf(a)).message = messages[a]

\* a run over a stream holding exactly these two Monday candidates has
\* returned its list
C5_Witness ==
    /\ pc = "done"
    /\ result.kind = "list"
    /\ \E a, b \in 1..Len(messages) : C5_Case(a, b)

\* C11: in every non-empty result the ranks are exactly 1..N, each used
\* once, and sentiment_rating never increases as rank increases.
C11_RanksAndOrder ==
    (pc = "done" /\ result.kind = "list") =>
        LET rows == result.rows
            N == Len(rows)
        IN  /\ N >= 1
            /\ {rows[k].rank : k \in 1..N} = 1..N
            /\ \A a, b \in 1..N : a # b => rows[a].rank # rows[b].rank
            /\ \A a, b \in 1..N :
                  rows[a].rank < rows[b].rank
                      => rows[a].sentiment_rating >= rows[b].sentiment_rating

\* a run has returned at least two records whose ratings differ and which
\* were appended to lunch_data in ascending order of rating
C11_Witness ==
    /\ pc = "done"
    /\ result.kind = "list"
    /\ \E a, b \in 1..Len(lunch_data) :
          a < b /\ lunch_data[a].sentiment_rating < lunch_data[b].sentiment_rating

\* position in the stream of the first candidate of date d: the moment the
\* date enters the per-date map
FirstSeen(d) ==
    CHOOSE k \in Candidates(Len(messages)) :
        /\ DateOf(k) = d
        /\ \A j \in Candidates(Len(messages)) : DateOf(j) = d => k <= j

\* C12: records of equal sentiment_rating appear in the order in which
\* their dates were first inserted into the per-date map, also when the
\* candidate held for a date was replaced later on.
C12_TiesKeepDateOrder ==
    pc = "done" =>
        LET rows == result.rows
        IN  \A a, b \in 1..Len(rows) :
                (a < b /\ rows[a].sentiment_rating = rows[b].sentiment_rating)
                    => FirstSeen(rows[a].date) < FirstSeen(rows[b].date)

\* a run has returned two records of equal rating, and the message held for
\* the date of one of them is not the first candidate of that date
C12_Witness ==
    /\ pc = "done"
    /\ \E a, b \in 1..Len(result.rows) :
          /\ a < b
          /\ result.rows[a].sentiment_rating = result.rows[b].sentiment_rating
          /\ \E r \in {a, b} :
                HeldFor(result.rows[r].date).message
                    # messages[FirstSeen(result.rows[r].date)]

\* C13: when no message survives classification, the weekday filter and
\* deduplication (an empty stream included), analyze_lunches returns None
\* and has requested no thread replies.
C13_NoCandidateNoFetch ==
    (pc = "done" /\ Candidates(Len(messages)) = {}) =>
        /\ result = ReturnNone
        /\ reply_fetches = <<>>

\* a run over a non-empty stream, none of whose messages survived, has
\* returned
C13_Witness ==
    /\ pc = "done"
    /\ Len(messages) > 0
    /\ Candidates(Len(messages)) = {}
    /\ result = ReturnNone

Analyzed == pc \in {"analyzed", "rated"}

Rated == pc = "rated"

\* the root text mentions rescheduling
Flagged == ContainsAny(lower(probe.text), ReschedulingWords)

\* n * 0.5 truncated toward zero
Half(n) == IF n >= 0 THEN n \div 2 ELSE -((-n) \div 2)

\* C14: on a flagged root every reaction contribution and every reply
\* contribution (reply count, reply text sentiment, each reply reaction) is
\* halved and truncated on its own before the sum; a single '+1' of count 1
\* gives 1 when flagged and 2 when not; two weight-3 reactions of count 1
\* give 1 + 1 = 2 when flagged.
C14_PerContributionHalving ==
    Rated =>
        /\ Flagged =>
             ret.rating =
                 SumSeq([k \in 1..Len(probe.reactions) |->
                     Half(probe.reactions[k].count
                            * root_reaction_weight(lower(probe.reactions[k].name)))])
                 + (IF probe_replies = <<>> THEN 0
                    ELSE Half(2 * Len(probe_replies))
                         + SumSeq([r \in 1..Len(probe_replies) |->
                               LET reply == probe_replies[r]
                                   s == analyze_sentiment(reply.text)
                               IN  Half(s)
                                   + SumSeq([j \in 1..Len(reply.reactions) |->
                                         Half(reply.reactions[j].count
                                                * reply_reaction_weight(
                                                      lower(reply.reactions[j].name),
                                                      s > 0))])]))
        /\ (probe.reactions = <<Reaction("+1", 1)>> /\ probe_replies = <<>>)
               => ret.rating = (IF Flagged THEN 1 ELSE 2)
        /\ (/\ Flagged
            /\ probe_replies = <<>>
            /\ Len(probe.reactions) = 2
            /\ \A k \in 1..2 :
                  /\ probe.reactions[k].count = 1
                  /\ root_reaction_weight(lower(probe.reactions[k].name)) = 3)
               => ret.rating = 2

\* a flagged root with two weight-3 reactions of count 1 and no replies has
\* been rated
C14_Witness ==
    /\ Rated
    /\ Flagged
    /\ probe.reactions = <<Reaction("fire", 1), Reaction("yum", 1)>>
    /\ probe_replies = <<>>
    /\ ret.rating = 2

ClaimedEnthusiasticTier ==
    {"heart_eyes", "star_struck", "drooling", "yum", "fire", "100", "exploding_head"}

ClaimedPositiveTier ==
    {"heart", "star", "thumbsup", "+1", "clap", "party", "raised_hands"}

\* an emoji name matches a tier when it contains one of the tier's names
MatchesTier(name, tier) == \E t \in tier : Contains(lower(name), t)

ClaimedRootWeight(name) ==
    IF MatchesTier(name, ClaimedEnthusiasticTier) THEN 3
    ELSE IF MatchesTier(name, ClaimedPositiveTier) THEN 2
    ELSE 1

\* C15: for an unflagged root without replies the rating is the sum of
\* count * weight over its reactions: weight 3 when the name matches the
\* enthusiastic tier, else 2 when it matches the positive tier, else 1; a
\* name matching both ('heart_eyes' holds 'heart') weighs 3.
C15_RootReactionTiers ==
    (Rated /\ ~Flagged /\ probe_replies = <<>>) =>
        ret.rating =
            SumSeq([k \in 1..Len(probe.reactions) |->
                probe.reactions[k].count
                    * ClaimedRootWeight(probe.reactions[k].name)])

\* an unflagged root without replies whose single reaction matches both
\* tiers has been rated
C15_Witness ==
    /\ Rated
    /\ ~Flagged
    /\ probe_replies = <<>>
    /\ probe.reactions = <<Reaction("heart_eyes", 2)>>
    /\ ret.rating = 6

\* what the reactions of the replies added to the rating of an unflagged
\* root: the rating less the root reactions, 2 per reply and the replies'
\* text sentiment
ReplyReactionPart ==
    ret.rating
    - SumSeq([k \in 1..Len(probe.reactions) |->
          probe.reactions[k].count
              * root_reaction_weight(lower(probe.reactions[k].name))])
    - 2 * Len(probe_replies)
    - SumSeq([r \in 1..Len(probe_replies) |->
          analyze_sentiment(probe_replies[r].text)])

ClaimedAgreementMarkers ==
    {"check", "white_check_mark", "checkmark", "thumbsup", "+1", "this"}

ClaimedPositiveReplyWeight(name) ==
    IF MatchesTier(name, ClaimedAgreementMarkers) THEN 3
    ELSE IF MatchesTier(name, ClaimedEnthusiasticTier) THEN 3
    ELSE IF MatchesTier(name, ClaimedPositiveTier) THEN 2
    ELSE 1

CodedPositiveReplyWeight(name) ==
    IF MatchesTier(name, ClaimedAgreementMarkers) THEN 3
    ELSE IF MatchesTier(name, {"heart_eyes", "star_struck", "drooling", "yum",
                               "fire", "chef", "kiss"}) THEN 3
    ELSE IF MatchesTier(name, {"heart", "star", "clap", "party",
                               "raised_hands"}) THEN 2
    ELSE 1

ClaimedOtherReplyWeight(name) ==
    IF MatchesTier(name, ClaimedEnthusiasticTier \cup ClaimedPositiveTier)
    THEN 2 ELSE 1

CodedOtherReplyWeight(name) ==
    IF MatchesTier(name, {"heart_eyes", "star_struck", "drooling", "yum", "fire"})
    THEN 2 ELSE 1

\* sum of count * weight over the reactions of every reply, the weight of a
\* name being given by the named rule
WeightedReplyReactions(rule) ==
    LET W(name) == CASE rule = "claimed positive" -> ClaimedPositiveReplyWeight(name)
                     [] rule = "coded positive" -> CodedPositiveReplyWeight(name)
                     [] rule = "claimed other" -> ClaimedOtherReplyWeight(name)
                     [] rule = "coded other" -> CodedOtherReplyWeight(name)
    IN  SumSeq([r \in 1..Len(probe_replies) |->
            SumSeq([j \in 1..Len(probe_replies[r].reactions) |->
                probe_replies[r].reactions[j].count
                    * W(probe_replies[r].reactions[j].name)])])

AllRepliesPositive ==
    /\ probe_replies # <<>>
    /\ \A r \in 1..Len(probe_replies) :
          analyze_sentiment(probe_replies[r].text) > 0

NoReplyPositive ==
    /\ probe_replies # <<>>
    /\ \A r \in 1..Len(probe_replies) :
          analyze_sentiment(probe_replies[r].text) <= 0

\* C16 (as claimed): on a reply whose text sentiment is > 0 a reaction adds
\* count * 3 when it is an agreement marker or matches the enthusiastic tier
\* (with '100' and 'exploding_head'), count * 2 when it matches the positive
\* tier, count * 1 otherwise.
C16_PositiveReplyRootTiers ==
    (Rated /\ ~Flagged /\ AllRepliesPositive) =>
        ReplyReactionPart = WeightedReplyReactions("claimed positive")

\* C16 (amended): on a reply whose text sentiment is > 0 a reaction adds
\* count * 3 when it is an agreement marker or its name contains heart_eyes,
\* star_struck, drooling, yum, fire, chef or kiss, count * 2 when it
\* contains heart, star, clap, party or raised_hands, count * 1 otherwise;
\* '100' and 'exploding_head' add count * 1.
C16_PositiveReplyOwnTiers ==
    (Rated /\ ~Flagged /\ AllRepliesPositive) =>
        /\ ReplyReactionPart = WeightedReplyReactions("coded positive")
        /\ \A n \in {"100", "exploding_head"} : CodedPositiveReplyWeight(n) = 1

\* a positive reply carrying a '100' reaction has been rated
C16_Witness ==
    /\ Rated
    /\ ~Flagged
    /\ AllRepliesPositive
    /\ \E r \in 1..Len(probe_replies) :
          \E j \in 1..Len(probe_replies[r].reactions) :
              probe_replies[r].reactions[j].name = "100"

\* C17 (as claimed): on a reply whose text sentiment is <= 0 a reaction adds
\* count * 2 when it matches the enthusiastic or the positive tier, and
\* count * 1 otherwise.
C17_OtherReplyBothTiers ==
    (Rated /\ ~Flagged /\ NoReplyPositive) =>
        ReplyReactionPart = WeightedReplyReactions("claimed other")

\* C17 (amended): on a reply whose text sentiment is <= 0 a reaction adds
\* count * 2 when its name contains heart_eyes, star_struck, drooling, yum
\* or fire, and count * 1 otherwise (heart, star, thumbsup, +1, 100 and
\* exploding_head included).
C17_OtherReplyFiveNames ==
    (Rated /\ ~Flagged /\ NoReplyPositive) =>
        /\ ReplyReactionPart = WeightedReplyReactions("coded other")
        /\ \A n \in {"heart", "star", "thumbsup", "+1", "100", "exploding_head"} :
              CodedOtherReplyWeight(n) = 1

\* a reply of non-positive sentiment carrying a 'heart' reaction has been
\* rated
C17_Witness ==
    /\ Rated
    /\ ~Flagged
    /\ NoReplyPositive
    /\ \E r \in 1..Len(probe_replies) :
          \E j \in 1..Len(probe_replies[r].reactions) :
              probe_replies[r].reactions[j].name = "heart"

\* number of places of s where phrase p starts
Occurrences(s, p) == Cardinality({i \in 1..Len(s) : StartsWithAt(s, i, p)})

ClaimedLexiconPositive ==
    {PositivePhrases[k] : k \in 1..Len(PositivePhrases)}

ClaimedLexiconNegative ==
    {NegativePhrases[k] : k \in 1..Len(NegativePhrases)}

RECURSIVE SumOver(_, _)
SumOver(S, f) ==
    IF S = {} THEN 0
    ELSE LET x == CHOOSE y \in S : TRUE IN f[x] + SumOver(S \ {x}, f)

NoEmojiToken == emoji_findall(lower(probe.text), 1) = <<>>

\* C18 (as claimed): analyze_sentiment adds +2 for every occurrence of a
\* positive phrase and -2 for every occurrence of a negative phrase; a text
\* holding one positive phrase k times scores 2 * k.
C18_PerOccurrence ==
    (Analyzed /\ NoEmojiToken) =>
        ret.sentiment =
              2 * SumOver(ClaimedLexiconPositive,
                          [p \in ClaimedLexiconPositive |->
                              Occurrences(lower(probe.text), p)])
            - 2 * SumOver(ClaimedLexiconNegative,
                          [p \in ClaimedLexiconNegative |->
                              Occurrences(lower(probe.text), p)])

\* C18 (amended): analyze_sentiment adds +2 for every positive phrase and -2
\* for every negative phrase that occurs in the text at least once, however
\* often it occurs; a text holding one positive phrase k times scores 2.
C18_OncePerPhrase ==
    (Analyzed /\ NoEmojiToken) =>
        /\ ret.sentiment =
                 2 * Cardinality({p \in ClaimedLexiconPositive :
                                     Occurrences(lower(probe.text), p) >= 1})
               - 2 * Cardinality({p \in ClaimedLexiconNegative :
                                     Occurrences(lower(probe.text), p) >= 1})
        /\ \A p \in ClaimedLexiconPositive :
              (/\ Occurrences(lower(probe.text), p) >= 2
               /\ \A q \in (ClaimedLexiconPositive \cup ClaimedLexiconNegative) \ {p} :
                     Occurrences(lower(probe.text), q) = 0)
                  => ret.sentiment = 2

\* a text holding one positive phrase three times and no other phrase has
\* been analysed
C18_Witness ==
    /\ Analyzed
    /\ NoEmojiToken
    /\ Occurrences(lower(probe.text), "amazing") = 3
    /\ ret.sentiment = 2

\* the tokens :name: of the probe text
EmojiTokens == emoji_findall(lower(probe.text), 1)

PhrasePart ==
      2 * Cardinality({p \in ClaimedLexiconPositive : Contains(lower(probe.text), p)})
    - 2 * Cardinality({p \in ClaimedLexiconNegative : Contains(lower(probe.text), p)})

HasPositiveSubstring(name) == \E x \in PositiveEmojiPatterns : Contains(name, x)

HasNegativeSubstring(name) == \E x \in NegativeEmojiPatterns : Contains(name, x)

\* C19 (as claimed): for every :name: token the positive check (+2) and the
\* negative check (-2) are applied independently, so a name holding both a
\* positive and a negative substring adds +2 and -2; the emoji part comes on
\* top of the phrase matches.
C19_IndependentEmojiChecks ==
    Analyzed =>
        ret.sentiment =
            PhrasePart
            + SumSeq([k \in 1..Len(EmojiTokens) |->
                  (IF HasPositiveSubstring(EmojiTokens[k]) THEN 2 ELSE 0)
                  + (IF HasNegativeSubstring(EmojiTokens[k]) THEN -2 ELSE 0)])

\* C19 (amended): for every :name: token the negative check is made only
\* when the positive check fails, so a name holding both a positive and a
\* negative substring adds +2 only; the emoji part comes on top of the
\* phrase matches.
C19_PositiveCheckFirst ==
    Analyzed =>
        ret.sentiment =
            PhrasePart
            + SumSeq([k \in 1..Len(EmojiTokens) |->
                  IF HasPositiveSubstring(EmojiTokens[k]) THEN 2
                  ELSE IF HasNegativeSubstring(EmojiTokens[k]) THEN -2
                  ELSE 0])

\* a text whose only token holds both a positive and a negative substring
\* has been analysed
C19_Witness ==
    /\ Analyzed
    /\ Len(EmojiTokens) = 1
    /\ HasPositiveSubstring(EmojiTokens[1])
    /\ HasNegativeSubstring(EmojiTokens[1])
    /\ ret.sentiment = 2

\* C20 (as claimed): for the text 'Lunch has arrived! We have Toben: Bowl
\* (GF, DF) Rice (V)' extract_vendor_name returns 'Toben' and
\* extract_menu_items returns 'Items: Bowl (GF, DF), Rice (V)'.
C20_TobenExample ==
    (/\ pc = "menu"
     /\ probe.text = "Lunch has arrived! We have Toben: Bowl (GF, DF) Rice (V)")
    => /\ ret.vendor = "Toben"
       /\ ret.menu = "Items: Bowl (GF, DF), Rice (V)"

\* C21 (as claimed): every vendor string returned by extract_vendor_name is
\* a fixed point of the dashboard's clean_display_text (unescape, strip
\* asterisks, trim), whatever the depth of entity escaping in the text.
C21_VendorFixedPoint ==
    pc \in {"vendor", "menu"} => clean_display_text(ret.vendor) = ret.vendor

\* the messages that survive classification, the weekday filter and
\* deduplication, in the order in which their dates first appear
Survivors ==
    LET n == Len(messages)
        C == Candidates(n)
        date == [k \in C |-> DateOf(k)]
        score == [k \in C |-> ScoreOf(k)]
        firsts == {k \in C : \A j \in C : date[j] = date[k] => k <= j}
        first(i) == CHOOSE k \in firsts :
                        Cardinality({j \in firsts : j < k}) = i - 1
        best(d) == CHOOSE k \in C :
                       /\ date[k] = d
                       /\ \A j \in C :
                             date[j] = d =>
                                 \/ score[k] > score[j]
                                 \/ (score[k] = score[j] /\ k <= j)
    IN  [i \in 1..Cardinality(firsts) |-> messages[best(date[first(i)])]]

\* the surviving candidates the second loop has gone through
Processed ==
    IF pc = "process" /\ idx > 1 THEN SubSeq(Survivors, 1, idx - 1)
    ELSE IF pc \in {"done", "shown"} THEN Survivors
    ELSE <<>>

ThreadsOf(ms) == [k \in 1..Len(ms) |-> ms[k].thread_ts]

\* C22 (as claimed): one conversations.replies request per surviving
\* candidate, in the order of processing, none before the deduplication
\* pass has ended and none for any other message.
C22_FetchPerSurvivor ==
    reply_fetches = ThreadsOf(Processed)

\* C22 (amended): one conversations.replies request per surviving candidate
\* that carries a thread_ts, in the order of processing, none before the
\* deduplication pass has ended, none for a survivor without thread and
\* none for a rejected, weekend or superseded message.
C22_FetchPerThreadedSurvivor ==
    reply_fetches =
        ThreadsOf(SelectSeq(Processed, LAMBDA m : m.thread_ts # NoThread))

\* a finished run that fetched the replies of one survivor, held another
\* survivor without thread, and left a superseded threaded message alone
C22_Witness ==
    /\ pc = "done"
    /\ Len(reply_fetches) = 1
    /\ \E k \in 1..Len(Survivors) : Survivors[k].thread_ts = NoThread
    /\ \E k \in Candidates(Len(messages)) :
          /\ messages[k].thread_ts # NoThread
          /\ \A f \in 1..Len(reply_fetches) :
                reply_fetches[f] # messages[k].thread_ts

\* the requests of one API in the order in which they were made
Requests(api) == SelectSeq(fetch_log, LAMBDA e : e.api = api)

\* the replies request for this thread ended in a timeout or transport error
ReplyFetchFailed(thread_ts) ==
    \E e \in 1..Len(fetch_log) :
        /\ fetch_log[e].api = "conversations.replies"
        /\ fetch_log[e].arg = thread_ts
        /\ fetch_log[e].status = "exception"

\* the history request number j ended in a timeout or transport error
PageFetchFailed(j) == Requests("conversations.history")[j].status = "exception"

\* C23: a thread-reply fetch that fails with a timeout or transport error
\* does not abort the run: that candidate is scored with zero replies and
\* reported with reply_count 0, every candidate has its record and the run
\* returns them; a page fetch that fails is the last page request, and the
\* messages of the earlier pages are the ones processed.
C23_FailuresDegrade ==
    /\ pc = "done" =>
          /\ result.kind \in {"list", "None"}
          /\ Len(lunch_data) = Len(lunch_by_date)
          /\ \A k \in 1..Len(lunch_by_date) :
                LET m == lunch_by_date[k].message
                IN  /\ lunch_data[k].date = lunch_by_date[k].date
                    /\ \E r \in 1..Len(result.rows) :
                          /\ result.rows[r].date = lunch_data[k].date
                          /\ result.rows[r].reply_count = lunch_data[k].reply_count
                          /\ result.rows[r].sentiment_rating
                                = lunch_data[k].sentiment_rating
                    /\ (m.thread_ts = NoThread \/ ReplyFetchFailed(m.thread_ts)) =>
                          /\ lunch_data[k].reply_count = 0
                          /\ lunch_data[k].sentiment_rating
                                = calculate_sentiment_rating(m, <<>>)
                    /\ (m.thread_ts # NoThread /\ ~ReplyFetchFailed(m.thread_ts)) =>
                          \/ /\ lunch_data[k].reply_count = 0
                             /\ lunch_data[k].sentiment_rating
                                   = calculate_sentiment_rating(m, <<>>)
                          \/ /\ lunch_data[k].reply_count = Len(Threads[m.thread_ts])
                             /\ lunch_data[k].sentiment_rating
                                   = calculate_sentiment_rating(m, Threads[m.thread_ts])
    /\ \A j \in 1..Len(Requests("conversations.history")) :
          PageFetchFailed(j) =>
              /\ j = Len(Requests("conversations.history"))
              /\ pc # "fetch"
              /\ messages
                    = SubSeq(history, 1, Requests("conversations.history")[j].arg)
              /\ pc = "done" => Len(lunch_data) = Len(Survivors)

\* a finished run whose second page request failed after a first page of
\* two candidates, one of which lost its reply fetch to a failure while the
\* other got its replies
C23_Witness ==
    /\ pc = "done"
    /\ Len(Requests("conversations.history")) = 2
    /\ PageFetchFailed(2)
    /\ Len(messages) = 2
    /\ Len(history) = 3
    /\ Len(result.rows) = 2
    /\ \E a, b \in 1..2 :
          /\ ReplyFetchFailed(lunch_by_date[a].message.thread_ts)
          /\ lunch_data[a].reply_count = 0
          /\ ~ReplyFetchFailed(lunch_by_date[b].message.thread_ts)
          /\ lunch_data[b].reply_count > 0

\* C24 (as claimed): a page fetch or thread-reply fetch that fails with a
\* network or timeout error is retried exactly once: the failed request is
\* either itself the retry of the request before it, or it is followed by
\* one more request of the same API with the same argument.
C24_RetriedOnce ==
    pc = "done" =>
        \A e \in 1..Len(fetch_log) :
            fetch_log[e].status = "exception" =>
                \/ /\ e > 1
                   /\ fetch_log[e - 1].api = fetch_log[e].api
                   /\ fetch_log[e - 1].arg = fetch_log[e].arg
                   /\ fetch_log[e - 1].status = "exception"
                \/ /\ e < Len(fetch_log)
                   /\ fetch_log[e + 1].api = fetch_log[e].api
                   /\ fetch_log[e + 1].arg = fetch_log[e].arg

\* the history request was answered with an authentication error
AuthRejected ==
    \E e \in 1..Len(fetch_log) :
        /\ fetch_log[e].api = "conversations.history"
        /\ fetch_log[e].status = "invalid_auth"

\* C25 (as claimed): once conversations.history has answered with an
\* authentication error, on the first page or a later one, the run has
\* failed with an exception surfaced to the caller: it neither goes on to
\* process messages nor returns None or a list, and no request follows.
C25_AuthErrorIsFatal ==
    AuthRejected =>
        /\ pc = "raised"
        /\ result = Raised
        /\ fetch_log[Len(fetch_log)].status = "invalid_auth"

\* the page that the history request number j received
PageOf(j) ==
    LET e == Requests("conversations.history")[j]
    IN  IF e.status = "ok"
        THEN SubSeq(history, e.arg + 1, Min({e.arg + PageSize, Len(history)}))
        ELSE <<>>

\* the history request number j came back with a next cursor
HadNextCursor(j) ==
    LET e == Requests("conversations.history")[j]
    IN  e.status = "ok" /\ e.arg + PageSize < Len(history)

\* the last message of page j is older than the start of the period
ReachesBefore(j) ==
    /\ PageOf(j) # <<>>
    /\ PageOf(j)[Len(PageOf(j))].ts < oldest_timestamp

\* request j is one after which fetch_messages must ask for no further page
Terminating(j) ==
    \/ Requests("conversations.history")[j].status # "ok"
    \/ PageOf(j) = <<>>
    \/ ReachesBefore(j)
    \/ ~HadNextCursor(j)

RECURSIVE PagesUpTo(_)
PagesUpTo(j) == IF j = 0 THEN <<>> ELSE PagesUpTo(j - 1) \o PageOf(j)

\* what C26 says of every state of the loop and of its result
PaginationStops ==
    LET n == Len(Requests("conversations.history"))
    IN  /\ \A j \in 1..n : Terminating(j) => j = n
        /\ all_messages = PagesUpTo(n)
        /\ pc = "fetch" => (n = 0 \/ ~Terminating(n))
        /\ pc \in {"scan", "process", "done", "shown"} =>
              /\ n > 0
              /\ Terminating(n)
              /\ messages = PagesUpTo(n)

\* C26: fetch_messages asks for no further page after a page whose last
\* message is older than `since` (also when that page carried a next
\* cursor), after an empty page, after a page without next cursor and after
\* a failed page, and for a further page otherwise; the loop ends, and the
\* messages returned are the pages received, in order, up to and including
\* the last one.
C26_Pagination ==
    /\ []PaginationStops
    /\ (pc = "fetch") ~> (pc = "scan")

\* fetch_messages has returned after a single page that carried a next
\* cursor and whose last message is older than the start of the period
C26_Witness ==
    /\ pc = "scan"
    /\ Len(Requests("conversations.history")) = 1
    /\ HadNextCursor(1)
    /\ ReachesBefore(1)
    /\ Len(messages) = PageSize
    /\ Len(history) > PageSize

\* the lines of the probed text
ProbeLines == split_lines(probe.text, 1)

\* the first line that holds a start indicator: it opens the menu region
RegionOpens ==
    LET opening == {k \in 1..Len(ProbeLines) :
                       ContainsAny(lower(ProbeLines[k]), start_indicators)}
    IN  IF opening = {} THEN 0 ELSE Min(opening)

\* the first line behind the opening line that holds a stop keyword
RegionEnds ==
    LET stopping == {k \in 1..Len(ProbeLines) :
                        /\ RegionOpens # 0
                        /\ k > RegionOpens
                        /\ ContainsAny(lower(ProbeLines[k]), stop_keywords)}
    IN  IF stopping = {} THEN 0 ELSE Min(stopping)

\* C27 (as claimed): once a start-indicator line has opened the region, the
\* first later line with a stop keyword ends it, also when that line holds
\* a start indicator too: neither that line nor any line behind it
\* contributes, so the menu is the menu of the text cut before that line.
C27_StopLineEndsRegion ==
    (pc = "menu" /\ RegionEnds # 0) =>
        ret.menu =
            extract_menu_items(
                Message(join("\n", SubSeq(ProbeLines, 1, RegionEnds - 1)),
                        probe.ts))

\* the wall clock of a timestamp in US/Eastern
EasternOf(ts) == DateTimeAt(ts, EasternUtcOffset(ts))

\* accepted by is_lunch_message on the strength of the time window alone
AcceptedByWindowOnly(message) ==
    /\ is_lunch_message(message)
    /\ ~TextAcceptContent(message.text)
    /\ ~has_menu_items(lower(message.text))

\* C28 (as claimed): for every accepted message the dedup date, the weekday
\* of the weekend filter and the time of day of the priority score are those
\* of the timestamp in US/Eastern, whatever the zone of the machine; an
\* accepted weekday message is never dropped as a weekend message, and a
\* message accepted through the time window alone has the time component
\* 1000 - distance from noon.
C28_EasternEverywhere ==
    /\ \A e \in 1..Len(lunch_by_date) :
          LET m == lunch_by_date[e].message
              eastern == EasternOf(m.ts)
          IN  /\ lunch_by_date[e].date = eastern.date
              /\ weekday(lunch_by_date[e].date_obj) = weekday(eastern)
              /\ lunch_by_date[e].date_obj.hour = eastern.hour
              /\ lunch_by_date[e].date_obj.minute = eastern.minute
              /\ AcceptedByWindowOnly(m) =>
                    lunch_by_date[e].priority_score
                            - quality_bonus(lower(m.text))
                        = 1000 - Abs(eastern.hour * 60 + eastern.minute - 720)
    /\ pc \in {"process", "done"} =>
          \A k \in 1..Len(messages) :
              (is_lunch_message(messages[k])
                   /\ weekday(EasternOf(messages[k].ts)) < 5) =>
                  \E e \in 1..Len(lunch_by_date) :
                      lunch_by_date[e].date = EasternOf(messages[k].ts).date

\* C29: reaction counts being non-negative, every root-reaction
\* contribution, the reply-count contribution and every reply-reaction
\* contribution is >= 0, flagged or not; so the rating is negative only if
\* some reply has a negative text-sentiment score, and a message without
\* replies has a rating >= 0.
C29_NegativeOnlyByReplyText ==
    Rated =>
        /\ \A k \in 1..Len(probe.reactions) :
              scaled(probe.reactions[k].count
                       * root_reaction_weight(lower(probe.reactions[k].name)),
                     Flagged) >= 0
        /\ scaled(Len(probe_replies) * 2, Flagged) >= 0
        /\ \A r \in 1..Len(probe_replies) :
              \A k \in 1..Len(probe_replies[r].reactions) :
                  scaled(probe_replies[r].reactions[k].count
                           * reply_reaction_weight(
                                 lower(probe_replies[r].reactions[k].name),
                                 analyze_sentiment(probe_replies[r].text) > 0),
                         Flagged) >= 0
        /\ ret.rating < 0 =>
              \E r \in 1..Len(probe_replies) :
                  analyze_sentiment(probe_replies[r].text) < 0
        /\ probe_replies = <<>> => ret.rating >= 0

\* a flagged root with one negative reply that carries a reaction has been
\* rated below zero
C29_Witness ==
    /\ Rated
    /\ Flagged
    /\ Len(probe_replies) = 1
    /\ probe_replies[1].reactions # <<>>
    /\ analyze_sentiment(probe_replies[1].text) < 0
    /\ ret.rating < 0

\* C30 (as claimed): with the widgets untouched the displayed table holds
\* every record of the loaded result, records of negative sentiment_rating
\* included, and the slider's bounds satisfy min <= max.
C30_DefaultsShowEverything ==
    pc = "shown" =>
        /\ dashboard.filtered_df = result.rows
        /\ dashboard.slider.min_value <= dashboard.slider.max_value

====
